---------------------------- MODULE Spec2Model ----------------------------
(***************************************************************************)
(* Model of src/questions.py, the prompt assembly module of the Obyte      *)
(* audit tooling: the loader get_questions, the module-level bindings      *)
(* questions and questions_generator, and the three renderers              *)
(* question_format, validation_format and question_generator.              *)
(*                                                                         *)
(* Text.  A Python str is modelled as a sequence of tokens; the tokens of  *)
(* a text, joined in order, are the text.  The literal text of the three   *)
(* f-strings is given line by line (the line break belongs to the line):   *)
(*   - a line that holds a replacement field or the label of one, a path   *)
(*     "byteball/ocore/...js", a quoted "#NoVulnerability" code span or a  *)
(*     file count is reproduced verbatim, cut so that each path, code span *)
(*     and count is a token of its own, and so are the two backquotes      *)
(*     around such a code span;                                            *)
(*   - an empty line is the token "\n";                                    *)
(*   - any other line is the token "<line N>", N the number of the first   *)
(*     line of src/questions.py with that content, so two such tokens are  *)
(*     equal exactly when the two lines are.                               *)
(* A doubled brace of the f-string source stands for the single brace      *)
(* Python emits.  A character outside printable ASCII, and the backquote,  *)
(* is written <U+XXXX>, its code point.                                    *)
(*                                                                         *)
(* Files.  The content of all_questions.json is modelled as the sequence   *)
(* of JSON lexemes json.load scans.                                        *)
(***************************************************************************)
EXTENDS Integers, Sequences, FiniteSets, TLC

(* Bounds of the model *)
MaxQuestions == 2
MaxInputLen == 1

VARIABLES
  resource,             \* state of the file all_questions.json
  pc,                   \* position in the execution of the module body
  questions,            \* module-level name questions (line 15)
  questions_generator,  \* module-level name questions_generator (line 17)
  ret,                  \* the last call made: function, argument, outcome
  threads               \* the calls and reads in progress in each thread

vars == <<resource, pc, questions, questions_generator, ret, threads>>

-----------------------------------------------------------------------------
(* f-strings (lines 108, 669, 1381): literal parts and replacement fields *)

Lit(text) == [kind |-> "literal", text |-> text, name |-> ""]
Field(name) == [kind |-> "field", text |-> <<>>, name |-> name]

(* variant: an entry of the catalog is declared twice *)
questions_generator_decl_dup ==
  <<
    "byteball/ocore/aa_addresses.js",
    "byteball/ocore/aa_composer.js",
    "byteball/ocore/aa_addresses.js"
  >>

(* questions_generator: the Subject Catalog as declared, source lines 17-95 *)
questions_generator_decl ==
  <<
    "byteball/ocore/aa_addresses.js",
    "byteball/ocore/aa_composer.js",
    "byteball/ocore/aa_validation.js",
    "byteball/ocore/arbiter_contract.js",
    "byteball/ocore/arbiters.js",
    "byteball/ocore/archiving. js",
    "byteball/ocore/balances.js",
    "byteball/ocore/bots.js",
    "byteball/ocore/breadcrumbs.js",
    "byteball/ocore/catchup.js",
    "byteball/ocore/chash. js",
    "byteball/ocore/chat_storage.js",
    "byteball/ocore/check_daemon.js",
    "byteball/ocore/composer.js",
    "byteball/ocore/conf. js",
    "byteball/ocore/constants.js",
    "byteball/ocore/data_feeds.js",
    "byteball/ocore/db.js",
    "byteball/ocore/definition.js",
    "byteball/ocore/desktop_app.js",
    "byteball/ocore/device.js",
    "byteball/ocore/divisible_asset.js",
    "byteball/ocore/enforce_singleton.js",
    "byteball/ocore/event_bus. js",
    "byteball/ocore/graph.js",
    "byteball/ocore/headers_commission.js",
    "byteball/ocore/indivisible_asset.js",
    "byteball/ocore/initial_votes.js",
    "byteball/ocore/inputs.js",
    "byteball/ocore/joint_storage. js",
    "byteball/ocore/kvstore.js",
    "byteball/ocore/light.js",
    "byteball/ocore/light_wallet.js",
    "byteball/ocore/mail.js",
    "byteball/ocore/main_chain.js",
    "byteball/ocore/mc_outputs.js",
    "byteball/ocore/merkle.js",
    "byteball/ocore/migrate_to_kv.js",
    "byteball/ocore/mutex.js",
    "byteball/ocore/my_witnesses.js",
    "byteball/ocore/mysql_pool. js",
    "byteball/ocore/network.js",
    "byteball/ocore/object_hash.js",
    "byteball/ocore/object_length.js",
    "byteball/ocore/paid_witnessing.js",
    "byteball/ocore/parent_composer.js",
    "byteball/ocore/private_payment.js",
    "byteball/ocore/private_profile. js",
    "byteball/ocore/profiler.js",
    "byteball/ocore/proof_chain.js",
    "byteball/ocore/prosaic_contract.js",
    "byteball/ocore/signature.js",
    "byteball/ocore/signed_message.js",
    "byteball/ocore/sqlite_migrations. js",
    "byteball/ocore/sqlite_pool.js",
    "byteball/ocore/storage.js",
    "byteball/ocore/string_utils.js",
    "byteball/ocore/uri. js",
    "byteball/ocore/validation.js",
    "byteball/ocore/validation_utils.js",
    "byteball/ocore/wallet.js",
    "byteball/ocore/wallet_defined_by_addresses.js",
    "byteball/ocore/wallet_defined_by_keys.js",
    "byteball/ocore/wallet_general.js",
    "byteball/ocore/witness_proof.js",
    "byteball/ocore/writer.js",
    "byteball/ocore/formula/common.js",
    "byteball/ocore/formula/evaluation. js",
    "byteball/ocore/formula/validation.js",
    "byteball/ocore/formula/parse_ojson.js",
    "byteball/ocore/formula/index. js",
    "byteball/ocore/tools/check_stability.js",
    "byteball/ocore/tools/replace_ops.js",
    "byteball/ocore/tools/supply.js",
    "byteball/ocore/tools/update_stability.js",
    "byteball/ocore/tools/validate_aa_definitions.js",
    "byteball/ocore/tools/viewkv.js"
  >>

(* question_format: literal text of the f-string, source lines 108-118 *)
question_format_text1 ==
  <<
    "\n",
    "<line 109>",
    "<line 110>",
    "<line 111>",
    "<line 112>",
    "<line 113>",
    "<line 114>",
    "<line 115>",
    "<line 116>",
    "\n",
    "**Security Question (scope for this run):** "
  >>

(* question_format: literal text of the f-string, source lines 118-655 *)
question_format_text2 ==
  <<
    "\n",
    "\n",
    "<line 120>",
    "\n",
    "<line 122>",
    "<line 123>",
    "<line 124>",
    "<line 125>",
    "<line 126>",
    "<line 127>",
    "<line 128>",
    "<line 129>",
    "<line 130>",
    "<line 131>",
    "\n",
    "<line 133>",
    "\n",
    "<line 135>",
    "<line 136>",
    "<line 137>",
    "<line 138>",
    "\n",
    "<line 140>",
    "<line 141>",
    "<line 142>",
    "\n",
    "<line 144>",
    "<line 145>",
    "<line 146>",
    "\n",
    "<line 148>",
    "<line 149>",
    "<line 150>",
    "<line 151>",
    "\n",
    "<line 153>",
    "<line 154>",
    "<line 155>",
    "\n",
    "<line 157>",
    "<line 158>",
    "<line 159>",
    "\n",
    "<line 161>",
    "<line 162>",
    "\n",
    "<line 164>",
    "<line 165>",
    "\n",
    "<line 167>",
    "<line 168>",
    "\n",
    "**Files in Scope**:  All ",
    "77",
    " JavaScript files in the <U+0060>byteball/ocore<U+0060> \n",
    "<line 171>",
    "<line 172>",
    "<line 173>",
    "\n",
    "<line 175>",
    "\n",
    "<line 177>",
    "<line 178>",
    "<line 179>",
    "<line 180>",
    "\n",
    "<line 182>",
    "<line 183>",
    "<line 184>",
    "\n",
    "<line 186>",
    "<line 187>",
    "<line 188>",
    "\n",
    "<line 190>",
    "<line 191>",
    "<line 192>",
    "\n",
    "<line 194>",
    "<line 195>",
    "<line 196>",
    "\n",
    "<line 198>",
    "<line 199>",
    "<line 200>",
    "\n",
    "<line 202>",
    "<line 203>",
    "<line 204>",
    "\n",
    "<line 206>",
    "<line 207>",
    "<line 208>",
    "\n",
    "<line 210>",
    "<line 211>",
    "\n",
    "<line 213>",
    "<line 214>",
    "<line 215>",
    "<line 216>",
    "\n",
    "<line 218>",
    "<line 219>",
    "<line 220>",
    "\n",
    "<line 222>",
    "<line 223>",
    "<line 224>",
    "\n",
    "<line 226>",
    "<line 227>",
    "<line 228>",
    "\n",
    "<line 230>",
    "<line 231>",
    "<line 232>",
    "\n",
    "<line 234>",
    "<line 235>",
    "<line 236>",
    "\n",
    "<line 238>",
    "<line 239>",
    "<line 240>",
    "\n",
    "<line 242>",
    "<line 243>",
    "<line 244>",
    "\n",
    "<line 246>",
    "<line 247>",
    "\n",
    "<line 249>",
    "<line 250>",
    "<line 251>",
    "\n",
    "<line 253>",
    "<line 254>",
    "<line 255>",
    "\n",
    "<line 257>",
    "<line 258>",
    "<line 259>",
    "\n",
    "<line 261>",
    "<line 262>",
    "<line 263>",
    "\n",
    "<line 265>",
    "<line 266>",
    "\n",
    "<line 268>",
    "<line 269>",
    "\n",
    "<line 271>",
    "\n",
    "<line 273>",
    "<line 274>",
    "<line 275>",
    "<line 276>",
    "\n",
    "<line 278>",
    "<line 279>",
    "<line 280>",
    "\n",
    "<line 282>",
    "<line 283>",
    "<line 284>",
    "<line 285>",
    "<line 286>",
    "<line 287>",
    "<line 288>",
    "<line 289>",
    "<line 290>",
    "\n",
    "<line 292>",
    "\n",
    "<line 294>",
    "<line 295>",
    "<line 296>",
    "<line 297>",
    "<line 298>",
    "<line 299>",
    "<line 300>",
    "<line 301>",
    "<line 302>",
    "\n",
    "<line 304>",
    "<line 305>",
    "<line 306>",
    "<line 307>",
    "<line 308>",
    "<line 309>",
    "<line 310>",
    "\n",
    "<line 312>",
    "<line 313>",
    "<line 314>",
    "<line 315>",
    "<line 316>",
    "<line 317>",
    "<line 318>",
    "<line 319>",
    "<line 320>",
    "<line 321>",
    "<line 322>",
    "\n",
    "<line 324>",
    "<line 325>",
    "<line 326>",
    "<line 327>",
    "<line 328>",
    "<line 329>",
    "\n",
    "<line 331>",
    "<line 332>",
    "<line 333>",
    "<line 334>",
    "<line 335>",
    "<line 336>",
    "<line 337>",
    "\n",
    "<line 339>",
    "<line 340>",
    "<line 341>",
    "<line 342>",
    "<line 343>",
    "<line 344>",
    "\n",
    "<line 346>",
    "<line 347>",
    "<line 348>",
    "<line 349>",
    "<line 350>",
    "<line 351>",
    "<line 352>",
    "\n",
    "<line 354>",
    "<line 355>",
    "<line 356>",
    "<line 357>",
    "<line 358>",
    "<line 359>",
    "\n",
    "<line 361>",
    "<line 362>",
    "<line 363>",
    "<line 364>",
    "<line 365>",
    "\n",
    "<line 367>",
    "<line 368>",
    "<line 369>",
    "<line 370>",
    "<line 371>",
    "\n",
    "<line 373>",
    "\n",
    "<line 375>",
    "<line 376>",
    "<line 377>",
    "<line 378>",
    "<line 379>",
    "<line 380>",
    "<line 381>",
    "<line 382>",
    "<line 383>",
    "<line 384>",
    "<line 385>",
    "<line 386>",
    "<line 387>",
    "<line 388>",
    "<line 389>",
    "<line 390>",
    "\n",
    "<line 392>",
    "\n",
    "<line 394>",
    "<line 395>",
    "<line 396>",
    "<line 397>",
    "\n",
    "<line 399>",
    "<line 400>",
    "<line 401>",
    "<line 402>",
    "<line 403>",
    "\n",
    "<line 405>",
    "\n",
    "<line 407>",
    "<line 408>",
    "<line 409>",
    "<line 410>",
    "<line 411>",
    "<line 412>",
    "<line 413>",
    "<line 414>",
    "<line 415>",
    "\n",
    "<line 417>",
    "\n",
    "<line 419>",
    "<line 420>",
    "<line 421>",
    "<line 422>",
    "<line 423>",
    "\n",
    "<line 425>",
    "<line 426>",
    "\n",
    "<line 428>",
    "<line 429>",
    "<line 430>",
    "<line 431>",
    "\n",
    "<line 433>",
    "<line 434>",
    "<line 435>",
    "<line 436>",
    "<line 437>",
    "<line 438>",
    "\n",
    "<line 440>",
    "\n",
    "<line 442>",
    "<line 443>",
    "<line 444>",
    "- Code quotations (actual snippets from the ",
    "77",
    " in-scope files)\n",
    "<line 446>",
    "<line 447>",
    "<line 448>",
    "<line 449>",
    "<line 450>",
    "<line 451>",
    "\n",
    "<line 453>",
    "<U+0060>",
    "#NoVulnerability found for this question. ",
    "<U+0060>",
    "\n",
    "\n",
    "<line 456>",
    "\n",
    "<line 458>",
    "<line 459>",
    "<line 460>",
    "<line 461>",
    "<line 462>",
    "<line 463>",
    "\n",
    "<line 465>",
    "\n",
    "<line 467>",
    "- [ ] Vulnerability lies within one of the ",
    "77",
    " in-scope files (not test/)\n",
    "<line 469>",
    "<line 470>",
    "<line 471>",
    "<line 472>",
    "<line 473>",
    "<line 474>",
    "<line 475>",
    "\n",
    "<line 477>",
    "\n",
    "<line 479>",
    "\n",
    "<line 481>",
    "<line 482>",
    "\n",
    "<line 484>",
    "<line 485>",
    "\n",
    "<line 487>",
    "<line 488>",
    "<line 489>",
    "\n",
    "<line 491>",
    "\n",
    "<line 493>",
    "\n",
    "<line 495>",
    "\n",
    "<line 497>",
    "\n",
    "<line 499>",
    "<line 500>",
    "<line 501>",
    "<line 502>",
    "<line 503>",
    "\n",
    "<line 505>",
    "<line 506>",
    "<line 507>",
    "<line 508>",
    "<line 509>",
    "<line 510>",
    "\n",
    "<line 512>",
    "\n",
    "<line 514>",
    "\n",
    "<line 516>",
    "\n",
    "<line 518>",
    "\n",
    "<line 520>",
    "<line 521>",
    "<line 522>",
    "\n",
    "<line 524>",
    "<line 525>",
    "<line 526>",
    "<line 527>",
    "\n",
    "<line 529>",
    "\n",
    "<line 531>",
    "\n",
    "<line 533>",
    "<line 534>",
    "<line 535>",
    "<line 536>",
    "\n",
    "<line 538>",
    "<line 539>",
    "<line 540>",
    "<line 541>",
    "\n",
    "<line 543>",
    "<line 544>",
    "<line 545>",
    "<line 546>",
    "\n",
    "<line 548>",
    "<line 549>",
    "<line 550>",
    "\n",
    "<line 552>",
    "\n",
    "<line 554>",
    "\n",
    "<line 556>",
    "\n",
    "<line 558>",
    "\n",
    "<line 560>",
    "<line 500>",
    "<line 562>",
    "<line 563>",
    "\n",
    "<line 565>",
    "<line 566>",
    "<line 567>",
    "<line 568>",
    "\n",
    "<line 570>",
    "<line 566>",
    "<line 572>",
    "<line 573>",
    "<line 503>",
    "\n",
    "<line 576>",
    "<line 577>",
    "<line 578>",
    "<line 579>",
    "\n",
    "<line 581>",
    "<line 582>",
    "<line 583>",
    "<line 584>",
    "<line 585>",
    "\n",
    "<line 587>",
    "\n",
    "<line 589>",
    "<line 590>",
    "<line 591>",
    "<line 592>",
    "<line 593>",
    "<line 503>",
    "\n",
    "<line 596>",
    "<line 500>",
    "<line 598>",
    "<line 599>",
    "<line 600>",
    "<line 601>",
    "<line 602>",
    "\n",
    "<line 604>",
    "<line 605>",
    "<line 606>",
    "<line 607>",
    "\n",
    "<line 609>",
    "<line 610>",
    "<line 573>",
    "\n",
    "<line 613>",
    "<line 614>",
    "<line 615>",
    "<line 503>",
    "\n",
    "<line 618>",
    "<line 503>",
    "<line 620>",
    "<line 503>",
    "\n",
    "<line 623>",
    "<line 503>",
    "<line 625>",
    "<line 503>",
    "\n",
    "<line 628>",
    "<line 629>",
    "<line 630>",
    "<line 631>",
    "<line 632>",
    "\n",
    "<line 634>",
    "\n",
    "<line 636>",
    "<U+0060>",
    "#NoVulnerability found for this question.",
    "<U+0060>",
    "\n",
    "\n",
    "<line 477>",
    "\n",
    "<line 641>",
    "\n",
    "<line 643>",
    "<line 644>",
    "<line 645>",
    "<line 646>",
    "<line 647>",
    "<line 648>",
    "<line 649>",
    "<line 650>",
    "<line 651>",
    "<line 652>",
    "\n",
    "<line 654>"
  >>

(* variant: the field misspells the parameter *)
question_format_template_typo ==
  <<Lit(question_format_text1), Field("questoin"), Lit(question_format_text2)>>

(* question_format: the parts of the f-string in source order, lines 108-655 *)
question_format_template ==
  <<
    Lit(question_format_text1), Field("question"),
    Lit(question_format_text2)
  >>

(* validation_format: literal text of the f-string, source lines 669-675 *)
validation_format_text1 ==
  <<
    "\n",
    "<line 670>",
    "\n",
    "<line 672>",
    "\n",
    "**SECURITY CLAIM TO VALIDATE:**\n"
  >>

(* validation_format: literal text of the f-string, source lines 675-1366 *)
validation_format_text2 ==
  <<
    "\n",
    "\n",
    "<line 677>",
    "<line 678>",
    "\n",
    "<line 680>",
    "Reject immediately (",
    "<U+0060>",
    "#NoVulnerability",
    "<U+0060>",
    ") if **ANY** apply:\n",
    "\n",
    "<line 683>",
    "- <U+274C> Affects files **not** in the ",
    "77",
    " in-scope files from <U+0060>byteball/ocore<U+0060> repository\n",
    "<line 685>",
    "<line 686>",
    "<line 687>",
    "\n",
    "**In-Scope Files (",
    "77",
    " total):**\n",
    "<line 690>",
    "<line 691>",
    "<line 692>",
    "<line 693>",
    "\n",
    "**Verify**:  Check that every file path cited in the report matches exactly one of the ",
    "77",
    " in-scope files. \n",
    "\n",
    "<line 697>",
    "<line 698>",
    "<line 699>",
    "<line 700>",
    "<line 701>",
    "<line 702>",
    "<line 703>",
    "<line 704>",
    "\n",
    "<line 706>",
    "\n",
    "<line 708>",
    "\n",
    "<line 710>",
    "<line 711>",
    "<line 712>",
    "<line 713>",
    "<line 714>",
    "<line 715>",
    "<line 716>",
    "<line 717>",
    "\n",
    "<line 719>",
    "<line 720>",
    "<line 721>",
    "<line 722>",
    "<line 723>",
    "<line 724>",
    "<line 725>",
    "<line 726>",
    "\n",
    "<line 728>",
    "<line 729>",
    "<line 730>",
    "<line 731>",
    "<line 732>",
    "<line 733>",
    "<line 734>",
    "<line 735>",
    "\n",
    "<line 737>",
    "\n",
    "<line 739>",
    "\n",
    "<line 741>",
    "\n",
    "<line 743>",
    "<line 744>",
    "\n",
    "<line 746>",
    "<line 747>",
    "\n",
    "<line 749>",
    "<line 750>",
    "\n",
    "<line 752>",
    "<line 753>",
    "\n",
    "<line 755>",
    "\n",
    "<line 757>",
    "<line 758>",
    "<line 759>",
    "<line 760>",
    "<line 761>",
    "<line 762>",
    "<line 763>",
    "<line 764>",
    "<line 765>",
    "<line 766>",
    "\n",
    "<line 768>",
    "\n",
    "<line 770>",
    "\n",
    "<line 772>",
    "- Exact file path and line numbers (e.g., <U+0060>validation.js:450-475<U+0060>) within the ",
    "77",
    " in-scope files\n",
    "<line 774>",
    "<line 775>",
    "<line 776>",
    "<line 777>",
    "\n",
    "<line 779>",
    "\n",
    "<line 781>",
    "<line 782>",
    "<line 783>",
    "<line 784>",
    "<line 785>",
    "<line 786>",
    "<line 787>",
    "\n",
    "<line 789>",
    "<line 790>",
    "<line 791>",
    "<line 792>",
    "<line 793>",
    "<line 794>",
    "\n",
    "<line 796>",
    "<line 797>",
    "<line 798>",
    "<line 799>",
    "<line 800>",
    "<line 801>",
    "\n",
    "<line 803>",
    "<line 790>",
    "<line 805>",
    "<line 806>",
    "<line 807>",
    "<line 808>",
    "<line 809>",
    "\n",
    "<line 811>",
    "<line 812>",
    "<line 813>",
    "<line 814>",
    "<line 815>",
    "<line 816>",
    "<line 817>",
    "\n",
    "<line 819>",
    "<line 790>",
    "<line 821>",
    "<line 822>",
    "<line 823>",
    "<line 824>",
    "<line 825>",
    "\n",
    "<line 827>",
    "<line 828>",
    "<line 829>",
    "\n",
    "<line 831>",
    "<line 832>",
    "<line 833>",
    "\n",
    "<line 835>",
    "<line 836>",
    "<line 837>",
    "\n",
    "<line 839>",
    "<line 840>",
    "<line 841>",
    "\n",
    "<line 843>",
    "\n",
    "<line 845>",
    "\n",
    "<line 847>",
    "<line 848>",
    "<line 849>",
    "<line 850>",
    "<line 851>",
    "<line 852>",
    "\n",
    "<line 854>",
    "\n",
    "<line 856>",
    "<line 857>",
    "<line 858>",
    "<line 859>",
    "<line 860>",
    "<line 861>",
    "\n",
    "<line 863>",
    "\n",
    "<line 865>",
    "\n",
    "<line 867>",
    "\n",
    "<line 869>",
    "\n",
    "<line 871>",
    "\n",
    "<line 873>",
    "<line 874>",
    "<line 875>",
    "<line 876>",
    "<line 877>",
    "<line 878>",
    "\n",
    "<line 880>",
    "<line 881>",
    "<line 882>",
    "<line 883>",
    "<line 884>",
    "<line 885>",
    "\n",
    "<line 887>",
    "<line 888>",
    "<line 889>",
    "<line 890>",
    "<line 891>",
    "<line 892>",
    "\n",
    "<line 894>",
    "<line 895>",
    "<line 896>",
    "<line 897>",
    "<line 898>",
    "<line 899>",
    "\n",
    "<line 901>",
    "\n",
    "<line 903>",
    "<line 904>",
    "\n",
    "<line 906>",
    "\n",
    "<line 908>",
    "<line 909>",
    "<line 910>",
    "<line 911>",
    "<line 912>",
    "<line 913>",
    "\n",
    "<line 915>",
    "<line 916>",
    "<line 917>",
    "<line 918>",
    "\n",
    "<line 920>",
    "<line 921>",
    "<line 922>",
    "<line 923>",
    "<line 924>",
    "\n",
    "<line 926>",
    "\n",
    "<line 928>",
    "<line 929>",
    "<line 930>",
    "<line 931>",
    "<line 932>",
    "<line 933>",
    "<line 934>",
    "<line 935>",
    "\n",
    "<line 937>",
    "\n",
    "<line 939>",
    "\n",
    "<line 941>",
    "<line 942>",
    "<line 943>",
    "<line 944>",
    "<line 945>",
    "<line 946>",
    "<line 947>",
    "\n",
    "<line 949>",
    "<line 950>",
    "<line 951>",
    "<line 952>",
    "<line 953>",
    "<line 954>",
    "<line 955>",
    "\n",
    "<line 957>",
    "<line 958>",
    "<line 959>",
    "<line 960>",
    "<line 961>",
    "<line 962>",
    "<line 963>",
    "\n",
    "<line 965>",
    "<line 966>",
    "<line 967>",
    "<line 968>",
    "<line 969>",
    "\n",
    "<line 971>",
    "<line 972>",
    "<line 973>",
    "<line 974>",
    "\n",
    "<line 976>",
    "\n",
    "<line 978>",
    "\n",
    "<line 980>",
    "<line 981>",
    "<line 982>",
    "<line 983>",
    "\n",
    "<line 985>",
    "<line 986>",
    "<line 987>",
    "<line 988>",
    "<line 989>",
    "<line 990>",
    "<line 991>",
    "\n",
    "<line 993>",
    "<line 994>",
    "<line 995>",
    "<line 996>",
    "\n",
    "<line 998>",
    "<line 999>",
    "<line 1000>",
    "<line 1001>",
    "<line 1002>",
    "\n",
    "<line 1004>",
    "<line 1005>",
    "<line 1006>",
    "<line 1007>",
    "<line 1008>",
    "\n",
    "<line 1010>",
    "\n",
    "<line 1012>",
    "<line 1013>",
    "<line 1014>",
    "<line 1015>",
    "<line 1016>",
    "<line 1017>",
    "<line 1018>",
    "\n",
    "<line 1020>",
    "\n",
    "<line 1022>",
    "\n",
    "<line 1024>",
    "<line 1025>",
    "<line 1026>",
    "<line 1027>",
    "<line 1028>",
    "<line 1029>",
    "\n",
    "<line 1031>",
    "<line 1032>",
    "<line 1033>",
    "<line 1034>",
    "\n",
    "<line 1036>",
    "<line 1037>",
    "<line 1038>",
    "<line 1039>",
    "<line 1040>",
    "<line 1041>",
    "\n",
    "<line 1043>",
    "<line 1044>",
    "<line 1045>",
    "<line 1046>",
    "<line 1047>",
    "<line 1048>",
    "<line 1049>",
    "\n",
    "<line 1051>",
    "\n",
    "<line 1053>",
    "\n",
    "- [ ] Vulnerability is in one of the ",
    "77",
    " in-scope files from <U+0060>byteball/ocore<U+0060>\n",
    "<line 1056>",
    "<line 1057>",
    "<line 1058>",
    "<line 1059>",
    "<line 1060>",
    "<line 1061>",
    "<line 1062>",
    "<line 1063>",
    "<line 1064>",
    "<line 1065>",
    "<line 1066>",
    "<line 1067>",
    "<line 1068>",
    "<line 1069>",
    "<line 1070>",
    "<line 1071>",
    "<line 1072>",
    "<line 1073>",
    "<line 1074>",
    "<line 1075>",
    "<line 1076>",
    "<line 1077>",
    "<line 1078>",
    "<line 1079>",
    "<line 1080>",
    "\n",
    "**If any checkbox is unchecked <U+2192> Output:** ",
    "<U+0060>",
    "#NoVulnerability found for this question. ",
    "<U+0060>",
    "\n",
    "\n",
    "<line 1084>",
    "\n",
    "<line 1086>",
    "<line 1087>",
    "<line 1088>",
    "<line 1089>",
    "<line 1090>",
    "<line 1091>",
    "<line 1092>",
    "<line 1093>",
    "<line 1094>",
    "<line 1095>",
    "<line 1096>",
    "\n",
    "<line 1098>",
    "<line 1099>",
    "<line 1100>",
    "<line 1101>",
    "<line 1102>",
    "<line 1103>",
    "<line 1104>",
    "<line 1105>",
    "<line 1106>",
    "<line 1107>",
    "\n",
    "<line 1109>",
    "<line 1087>",
    "<line 1111>",
    "<line 1112>",
    "<line 1113>",
    "<line 1114>",
    "<line 1115>",
    "<line 1104>",
    "<line 1117>",
    "<line 1118>",
    "<line 1119>",
    "\n",
    "<line 1121>",
    "<line 1099>",
    "<line 1123>",
    "<line 1124>",
    "<line 1125>",
    "<line 1126>",
    "<line 1127>",
    "<line 1104>",
    "<line 1129>",
    "<line 1130>",
    "<line 1131>",
    "\n",
    "<line 1133>",
    "<line 1099>",
    "<line 1135>",
    "<line 1136>",
    "<line 1137>",
    "<line 1138>",
    "<line 1104>",
    "<line 1140>",
    "<line 1141>",
    "\n",
    "<line 1143>",
    "<line 1099>",
    "<line 1145>",
    "<line 1146>",
    "<line 1147>",
    "<line 1148>",
    "<line 1104>",
    "<line 1150>",
    "<line 1151>",
    "\n",
    "<line 1153>",
    "<line 1099>",
    "<line 1155>",
    "<line 1156>",
    "<line 1157>",
    "<line 1158>",
    "<line 1093>",
    "<line 1160>",
    "<line 1161>",
    "\n",
    "<line 1163>",
    "<line 1087>",
    "<line 1165>",
    "<line 1166>",
    "<line 1167>",
    "<line 1168>",
    "<line 1104>",
    "<line 1170>",
    "<line 1171>",
    "\n",
    "<line 1173>",
    "<line 1087>",
    "<line 1175>",
    "<line 1176>",
    "<line 1177>",
    "<line 1178>",
    "<line 1104>",
    "<line 1180>",
    "<line 1181>",
    "\n",
    "<line 1183>",
    "<line 1099>",
    "<line 1185>",
    "<line 1186>",
    "<line 1187>",
    "<line 1188>",
    "<line 1104>",
    "<line 1190>",
    "<line 1191>",
    "\n",
    "<line 1193>",
    "\n",
    "<line 1195>",
    "\n",
    "<line 1197>",
    "\n",
    "<line 1199>",
    "<line 1200>",
    "\n",
    "<line 1202>",
    "<line 1203>",
    "<line 1204>",
    "<line 1205>",
    "<line 1206>",
    "\n",
    "<line 1208>",
    "<line 1209>",
    "<line 489>",
    "\n",
    "<line 1212>",
    "<line 1213>",
    "<line 1214>",
    "<line 1215>",
    "\n",
    "<line 1217>",
    "\n",
    "<line 1219>",
    "\n",
    "<line 1221>",
    "\n",
    "<line 1223>",
    "\n",
    "<line 499>",
    "<line 500>",
    "<line 1227>",
    "<line 1228>",
    "<line 1229>",
    "<line 503>",
    "\n",
    "<line 505>",
    "<line 1233>",
    "<line 1234>",
    "<line 1235>",
    "<line 1236>",
    "<line 1237>",
    "<line 1238>",
    "<line 1239>",
    "<line 1240>",
    "<line 1241>",
    "<line 1242>",
    "<line 1243>",
    "\n",
    "<line 1245>",
    "<line 1246>",
    "\n",
    "<line 1248>",
    "<line 1249>",
    "<line 1250>",
    "<line 1251>",
    "<line 1252>",
    "<line 1253>",
    "\n",
    "<line 1255>",
    "\n",
    "<line 1257>",
    "\n",
    "<line 520>",
    "<line 1260>",
    "<line 1261>",
    "\n",
    "<line 524>",
    "<line 1264>",
    "<line 1265>",
    "<line 1266>",
    "\n",
    "<line 1268>",
    "<line 1269>",
    "<line 1270>",
    "<line 1271>",
    "\n",
    "<line 1273>",
    "\n",
    "<line 533>",
    "<line 1276>",
    "<line 1277>",
    "<line 1278>",
    "\n",
    "<line 538>",
    "<line 1281>",
    "<line 1282>",
    "<line 1283>",
    "\n",
    "<line 543>",
    "<line 1286>",
    "<line 1287>",
    "<line 1288>",
    "\n",
    "<line 548>",
    "<line 1291>",
    "<line 1292>",
    "\n",
    "<line 1294>",
    "\n",
    "<line 1296>",
    "\n",
    "<line 1298>",
    "<line 1299>",
    "<line 1300>",
    "<line 1301>",
    "<line 1302>",
    "<line 503>",
    "\n",
    "<line 1305>",
    "<line 1306>",
    "\n",
    "<line 500>",
    "// File: ",
    "byteball/ocore/validation.js",
    "\n",
    "<line 1310>",
    "\n",
    "<line 1312>",
    "\n",
    "<line 1314>",
    "<line 573>",
    "<line 503>",
    "\n",
    "<line 576>",
    "<line 1319>",
    "<line 1320>",
    "<line 1321>",
    "\n",
    "<line 581>",
    "<line 1324>",
    "<line 1325>",
    "<line 1326>",
    "<line 1327>",
    "\n",
    "<line 1329>",
    "<line 1330>",
    "<line 1331>",
    "<line 477>",
    "\n",
    "<line 1334>",
    "\n",
    "<line 1336>",
    "\n",
    "<line 503>",
    "<line 1339>",
    "<line 503>",
    "\n",
    "<line 1342>",
    "\n",
    "<line 1344>",
    "\n",
    "<line 1346>",
    "2. <U+2705> Can I defend this with exact line numbers and code quotes from the ",
    "77",
    " in-scope files?\n",
    "<line 1348>",
    "<line 1349>",
    "<line 1350>",
    "<line 1351>",
    "<line 1352>",
    "<line 1353>",
    "<line 1354>",
    "<line 1355>",
    "\n",
    "<line 1357>",
    "\n",
    "<line 1359>",
    "\n",
    "<line 1361>",
    "<line 1362>",
    "                                                                                                      - ",
    "<U+0060>",
    "#NoVulnerability found for this question.",
    "<U+0060>",
    " (if **any** check fails)\n",
    "\n",
    "<line 1365>"
  >>

(* validation_format: the parts of the f-string in source order, lines 669-1366 *)
validation_format_template ==
  <<
    Lit(validation_format_text1), Field("report"),
    Lit(validation_format_text2)
  >>

(* question_generator: literal text of the f-string, source lines 1381-1392 *)
question_generator_text1 ==
  <<
    "\n",
    "<line 1382>",
    "\n",
    "<line 1384>",
    "\n",
    "<line 1386>",
    "\n",
    "<line 1388>",
    "\n",
    "<line 1390>",
    "\n",
    "**CRITICAL TARGET FILE**: Focus question generation EXCLUSIVELY on <U+0060>"
  >>

(* question_generator: literal text of the f-string, source lines 1392-1394 *)
question_generator_text2 ==
  <<
    "<U+0060>\n",
    "\n",
    "Note: The questions must be generated from **<U+0060>"
  >>

(* question_generator: literal text of the f-string, source lines 1394-1498 *)
question_generator_text3 ==
  <<
    "<U+0060>** only. If you cannot generate enough questions from this single file, provide as many quality questions as you can extract from the file's logic and interactions.  **DO NOT return empty results** - give whatever questions you can derive from the target file.\n",
    "\n",
    "<line 1396>",
    "\n",
    "**Full Context - ",
    "77",
    " In-Scope Files (for reference only):**\n",
    "\n",
    "### **Core Protocol Files (Root Directory) - ",
    "67",
    " files**\n",
    "\n",
    "<line 1402>",
    "<line 1403>",
    "    \"",
    "byteball/ocore/aa_addresses.js",
    "\",           # AA address derivation\n",
    "    \"",
    "byteball/ocore/aa_composer.js",
    "\",            # 71KB - AA transaction composition\n",
    "    \"",
    "byteball/ocore/aa_validation.js",
    "\",          # 28KB - AA validation logic\n",
    "    \"",
    "byteball/ocore/arbiter_contract.js",
    "\",       # Arbiter contract execution\n",
    "    \"",
    "byteball/ocore/arbiters.js",
    "\",               # Arbiter management\n",
    "    \"",
    "byteball/ocore/archiving.js",
    "\",              # Historical data archiving\n",
    "    \"",
    "byteball/ocore/balances.js",
    "\",               # Balance calculations\n",
    "    \"",
    "byteball/ocore/bots.js",
    "\",                   # Bot interfaces\n",
    "    \"",
    "byteball/ocore/breadcrumbs.js",
    "\",            # Transaction breadcrumbs\n",
    "    \"",
    "byteball/ocore/catchup.js",
    "\",                # Network sync catchup logic\n",
    "    \"",
    "byteball/ocore/chash.js",
    "\",                  # Cryptographic hashing (chash160)\n",
    "    \"",
    "byteball/ocore/chat_storage.js",
    "\",           # Chat message storage\n",
    "    \"",
    "byteball/ocore/check_daemon.js",
    "\",           # Daemon health monitoring\n",
    "    \"",
    "byteball/ocore/composer.js",
    "\",               # 38KB - Transaction composition\n",
    "    \"",
    "byteball/ocore/conf.js",
    "\",                   # Configuration management\n",
    "    \"",
    "byteball/ocore/constants.js",
    "\",              # Protocol constants\n",
    "    \"",
    "byteball/ocore/data_feeds.js",
    "\",             # Oracle data feed handling\n",
    "    \"",
    "byteball/ocore/db.js",
    "\",                     # Database interface abstraction\n",
    "    \"",
    "byteball/ocore/definition.js",
    "\",             # 53KB - Address definition logic\n",
    "    \"",
    "byteball/ocore/desktop_app.js",
    "\",            # Desktop app utilities\n",
    "    \"",
    "byteball/ocore/device.js",
    "\",                 # 38KB - Device pairing & messaging\n",
    "    \"",
    "byteball/ocore/divisible_asset.js",
    "\",        # Divisible asset operations\n",
    "    \"",
    "byteball/ocore/enforce_singleton.js",
    "\",      # Singleton pattern enforcement\n",
    "    \"",
    "byteball/ocore/event_bus.js",
    "\",              # Event bus architecture\n",
    "    \"",
    "byteball/ocore/graph.js",
    "\",                  # DAG graph operations\n",
    "    \"",
    "byteball/ocore/headers_commission.js",
    "\",     # Header commission calculations\n",
    "    \"",
    "byteball/ocore/indivisible_asset.js",
    "\",      # 48KB - Indivisible asset logic\n",
    "    \"",
    "byteball/ocore/initial_votes.js",
    "\",          # Initial witness voting\n",
    "    \"",
    "byteball/ocore/inputs.js",
    "\",                 # Input validation & processing\n",
    "    \"",
    "byteball/ocore/joint_storage.js",
    "\",          # Joint (unit) storage operations\n",
    "    \"",
    "byteball/ocore/kvstore.js",
    "\",                # Key-value store interface\n",
    "    \"",
    "byteball/ocore/light. js",
    "\",                  # 34KB - Light client functionality\n",
    "    \"",
    "byteball/ocore/light_wallet.js",
    "\",           # Light wallet operations\n",
    "    \"",
    "byteball/ocore/mail.js",
    "\",                   # Email notification system\n",
    "    \"",
    "byteball/ocore/main_chain.js",
    "\",             # 77KB - CRITICAL - Main chain selection\n",
    "    \"",
    "byteball/ocore/mc_outputs.js",
    "\",             # Main chain output tracking\n",
    "    \"",
    "byteball/ocore/merkle. js",
    "\",                 # Merkle proof generation\n",
    "    \"",
    "byteball/ocore/migrate_to_kv.js",
    "\",          # Database migration utilities\n",
    "    \"",
    "byteball/ocore/mutex.js",
    "\",                  # Mutex lock implementation\n",
    "    \"",
    "byteball/ocore/my_witnesses.js",
    "\",           # Local witness list management\n",
    "    \"",
    "byteball/ocore/mysql_pool.js",
    "\",             # MySQL connection pooling\n",
    "    \"",
    "byteball/ocore/network.js",
    "\",                # 156KB - CRITICAL - P2P network protocol\n",
    "    \"",
    "byteball/ocore/object_hash.js",
    "\",            # Object hashing (unit hash calc)\n",
    "    \"",
    "byteball/ocore/object_length.js",
    "\",          # Object size calculations\n",
    "    \"",
    "byteball/ocore/paid_witnessing.js",
    "\",        # Witness reward distribution\n",
    "    \"",
    "byteball/ocore/parent_composer.js",
    "\",        # 30KB - Parent unit selection\n",
    "    \"",
    "byteball/ocore/private_payment.js",
    "\",        # Private payment handling\n",
    "    \"",
    "byteball/ocore/private_profile.js",
    "\",        # Private profile management\n",
    "    \"",
    "byteball/ocore/profiler.js",
    "\",               # Performance profiling\n",
    "    \"",
    "byteball/ocore/proof_chain.js",
    "\",            # Proof chain construction\n",
    "    \"",
    "byteball/ocore/prosaic_contract.js",
    "\",       # Prosaic contract execution\n",
    "    \"",
    "byteball/ocore/signature. js",
    "\",              # Signature verification (ECDSA)\n",
    "    \"",
    "byteball/ocore/signed_message.js",
    "\",         # Signed message validation\n",
    "    \"",
    "byteball/ocore/sqlite_migrations.js",
    "\",      # 32KB - SQLite schema migrations\n",
    "    \"",
    "byteball/ocore/sqlite_pool.js",
    "\",            # SQLite connection management\n",
    "    \"",
    "byteball/ocore/storage.js",
    "\",                # 98KB - CRITICAL - Storage layer\n",
    "    \"",
    "byteball/ocore/string_utils.js",
    "\",           # String utility functions\n",
    "    \"",
    "byteball/ocore/uri.js",
    "\",                    # URI parsing (obyte: // scheme)\n",
    "    \"",
    "byteball/ocore/validation.js",
    "\",             # 116KB - CRITICAL - Unit validation\n",
    "    \"",
    "byteball/ocore/validation_utils.js",
    "\",       # Validation helper functions\n",
    "    \"",
    "byteball/ocore/wallet.js",
    "\",                 # 122KB - CRITICAL - Wallet operations\n",
    "    \"",
    "byteball/ocore/wallet_defined_by_addresses.js",
    "\",  # 27KB - Multi-sig wallet logic\n",
    "    \"",
    "byteball/ocore/wallet_defined_by_keys.js",
    "\", # 35KB - Key-based wallet logic\n",
    "    \"",
    "byteball/ocore/wallet_general.js",
    "\",         # General wallet utilities\n",
    "    \"",
    "byteball/ocore/witness_proof.js",
    "\",          # Witness proof generation\n",
    "    \"",
    "byteball/ocore/writer.js",
    "\"                  # 34KB - Unit writing to DAG\n",
    "<line 1470>",
    "<line 503>",
    "\n",
    "### **Formula Directory (AA Smart Contract Engine) - ",
    "5",
    " files**\n",
    "\n",
    "<line 1402>",
    "<line 1476>",
    "    \"",
    "byteball/ocore/formula/common.js",
    "\",         # Common formula utilities\n",
    "    \"",
    "byteball/ocore/formula/evaluation.js",
    "\",     # 106KB - CRITICAL - AA formula evaluation\n",
    "    \"",
    "byteball/ocore/formula/validation.js",
    "\",     # 46KB - Formula syntax validation\n",
    "    \"",
    "byteball/ocore/formula/parse_ojson.js",
    "\",    # OJSON parser for AA definitions\n",
    "    \"",
    "byteball/ocore/formula/index.js",
    "\"           # Formula module entry point\n",
    "<line 1470>",
    "<line 503>",
    "\n",
    "### **Tools Directory (Utility Scripts) - ",
    "6",
    " files**\n",
    "\n",
    "<line 1402>",
    "<line 1488>",
    "    \"",
    "byteball/ocore/tools/check_stability.js",
    "\",          # Stability verification\n",
    "    \"",
    "byteball/ocore/tools/replace_ops.js",
    "\",              # Operation replacement\n",
    "    \"",
    "byteball/ocore/tools/supply. js",
    "\",                   # Supply calculations\n",
    "    \"",
    "byteball/ocore/tools/update_stability.js",
    "\",         # Stability updates\n",
    "    \"",
    "byteball/ocore/tools/validate_aa_definitions.js",
    "\",  # AA definition validator\n",
    "    \"",
    "byteball/ocore/tools/viewkv.js",
    "\"                    # KV store viewer\n",
    "<line 1470>",
    "<line 503>",
    "\n",
    "**Total:  ",
    "77",
    " files in full scope (but focus ONLY on <U+0060>"
  >>

(* question_generator: literal text of the f-string, source lines 1498-1720 *)
question_generator_text4 ==
  <<
    "<U+0060> for this generation)**\n",
    "\n",
    "<line 477>",
    "\n",
    "<line 1502>",
    "\n",
    "<line 1504>",
    "\n",
    "<line 1506>",
    "<line 1507>",
    "<line 1508>",
    "<line 1509>",
    "<line 1510>",
    "\n",
    "<line 1512>",
    "\n",
    "<line 1514>",
    "<line 1515>",
    "<line 1516>",
    "<line 1517>",
    "<line 1518>",
    "<line 1519>",
    "\n",
    "<line 1521>",
    "\n",
    "<line 1523>",
    "<line 1524>",
    "<line 1525>",
    "<line 1526>",
    "<line 1527>",
    "<line 1528>",
    "\n",
    "<line 1530>",
    "\n",
    "<line 1532>",
    "<line 1533>",
    "<line 1534>",
    "<line 1535>",
    "<line 1536>",
    "<line 1537>",
    "<line 1538>",
    "\n",
    "<line 1540>",
    "\n",
    "<line 1542>",
    "<line 1543>",
    "<line 1544>",
    "<line 1545>",
    "<line 1546>",
    "<line 1547>",
    "\n",
    "<line 1549>",
    "\n",
    "<line 1551>",
    "<line 1552>",
    "<line 1553>",
    "<line 1554>",
    "<line 1555>",
    "<line 1556>",
    "\n",
    "<line 1558>",
    "\n",
    "<line 1560>",
    "<line 1561>",
    "<line 1562>",
    "<line 1563>",
    "\n",
    "<line 1565>",
    "\n",
    "<line 1567>",
    "<line 1568>",
    "<line 1569>",
    "<line 1570>",
    "<line 1571>",
    "\n",
    "<line 1573>",
    "\n",
    "<line 1575>",
    "<line 1576>",
    "<line 1577>",
    "<line 1578>",
    "<line 1579>",
    "<line 1580>",
    "<line 1581>",
    "\n",
    "<line 477>",
    "\n",
    "<line 1585>",
    "\n",
    "<line 1587>",
    "\n",
    "<line 1589>",
    "<line 1590>",
    "<line 1591>",
    "<line 1592>",
    "<line 1593>",
    "<line 1594>",
    "\n",
    "<line 1596>",
    "\n",
    "<line 1598>",
    "<line 1599>",
    "<line 1600>",
    "<line 1601>",
    "<line 1602>",
    "<line 1603>",
    "\n",
    "<line 1605>",
    "\n",
    "<line 1607>",
    "<line 1608>",
    "<line 1609>",
    "<line 1610>",
    "<line 1611>",
    "<line 1612>",
    "\n",
    "<line 1614>",
    "\n",
    "<line 1616>",
    "<line 1617>",
    "<line 1618>",
    "<line 1619>",
    "\n",
    "<line 1621>",
    "\n",
    "<line 1623>",
    "<line 1624>",
    "<line 1625>",
    "\n",
    "<line 1627>",
    "\n",
    "<line 1629>",
    "<line 1630>",
    "<line 1631>",
    "\n",
    "<line 477>",
    "\n",
    "<line 1635>",
    "\n",
    "<line 1637>",
    "\n",
    "<line 1639>",
    "\n",
    "<line 1641>",
    "<line 876>",
    "<line 1643>",
    "<line 1644>",
    "<line 1645>",
    "\n",
    "<line 1647>",
    "<line 1648>",
    "<line 1649>",
    "<line 1650>",
    "<line 1651>",
    "\n",
    "<line 1653>",
    "<line 1654>",
    "<line 1655>",
    "<line 1656>",
    "<line 1657>",
    "\n",
    "<line 1659>",
    "<line 1660>",
    "<line 897>",
    "<line 1662>",
    "<line 1663>",
    "\n",
    "<line 1665>",
    "\n",
    "<line 1667>",
    "\n",
    "<line 1669>",
    "\n",
    "<line 1671>",
    "<line 1672>",
    "<line 1673>",
    "<line 1674>",
    "\n",
    "<line 1676>",
    "<line 1677>",
    "<line 1678>",
    "\n",
    "<line 1680>",
    "<line 1681>",
    "<line 1682>",
    "<line 923>",
    "\n",
    "<line 477>",
    "\n",
    "<line 1687>",
    "\n",
    "<line 1689>",
    "\n",
    "<line 1691>",
    "<line 1692>",
    "<line 1693>",
    "<line 1694>",
    "\n",
    "<line 1696>",
    "\n",
    "<line 1698>",
    "\n",
    "<line 1700>",
    "\n",
    "<line 1702>",
    "<line 1703>",
    "<line 1704>",
    "\n",
    "<line 1706>",
    "\n",
    "<line 1708>",
    "<line 1709>",
    "<line 1710>",
    "<line 1711>",
    "<line 1712>",
    "<line 1713>",
    "\n",
    "<line 477>",
    "\n",
    "<line 1717>",
    "\n",
    "<line 1719>",
    "2. **Concrete & Actionable**:  Reference specific functions, variables, or logic flows in <U+0060>"
  >>

(* question_generator: literal text of the f-string, source lines 1720-1722 *)
question_generator_text5 ==
  <<
    "<U+0060>.\n",
    "<line 1721>",
    "4. **Deep Invariant Logic**: Focus on subtle state transitions, cross-file interactions (with <U+0060>"
  >>

(* question_generator: literal text of the f-string, source lines 1722-1723 *)
question_generator_text6 ==
  <<
    "<U+0060> as entry point), race conditions, non-determinism, overflow/underflow, signature bypasses, DAG structure corruption. \n",
    "5. **Breadth Within Target File**: Cover all major functions, edge cases, and state-changing operations in <U+0060>"
  >>

(* question_generator: literal text of the f-string, source lines 1723-1725 *)
question_generator_text7 ==
  <<
    "<U+0060>.\n",
    "<line 1724>",
    "7. **No Generic Questions**:  Avoid \"are there reentrancy issues?\" <U+2192> Instead:   \"In <U+0060>"
  >>

(* question_generator: literal text of the f-string, source lines 1725-1735 *)
question_generator_text8 ==
  <<
    ": functionName()<U+0060>, if condition X occurs, can attacker exploit Y to cause Z impact?\"\n",
    "\n",
    "<line 477>",
    "\n",
    "<line 1729>",
    "\n",
    "<line 1731>",
    "\n",
    "<line 1402>",
    "<line 1734>",
    "    \"[File:  "
  >>

(* question_generator: literal text of the f-string, source lines 1735-1737 *)
question_generator_text9 ==
  <<
    "] [Function: functionName()] [Vulnerability Type] Specific question describing attack vector, preconditions, and impact linking to Immunefi categories? \",\n",
    "<line 1736>",
    "    \"[File: "
  >>

(* question_generator: literal text of the f-string, source lines 1737-1758 *)
question_generator_text10 ==
  <<
    "] [Function: anotherFunction()] [Vulnerability Type] Another specific question with concrete exploit scenario?\",\n",
    "<line 1736>",
    "<line 1739>",
    "<line 1470>",
    "<line 503>",
    "\n",
    "**Example Format** (if target_file is <U+0060>",
    "byteball/ocore/validation.js",
    "<U+0060>):\n",
    "<line 1402>",
    "<line 1734>",
    "    \"[File: ",
    "byteball/ocore/validation.js",
    "] [Function: validate()] [Double-spend detection] If two units spending the same output arrive simultaneously from different peers and both pass initial validation before database commit, can both be stored in the database, allowing a double-spend to be confirmed in different branches of the DAG?\",\n",
    "<line 1736>",
    "    \"[File: ",
    "byteball/ocore/validation.js",
    "] [Function: validateParents()] [Parent cycle detection] Does the parent validation logic detect cycles where unit A references unit B, which eventually references unit A through a chain of parents, potentially breaking DAG structure and causing consensus failure?\",\n",
    "<line 1736>",
    "    \"[File: ",
    "byteball/ocore/validation.js",
    "] [Function: validateWitnesses()] [Witness compatibility] Can an attacker submit a unit with a witness list that shares zero witnesses with its parent units, bypassing the <U+2265>1 shared witness requirement and causing a permanent chain split for all descendant units?\",\n",
    "<line 1470>",
    "<line 503>",
    "\n",
    "<line 477>",
    "\n",
    "<line 1756>",
    "\n",
    "Generate security audit questions focusing EXCLUSIVELY on **<U+0060>"
  >>

(* question_generator: literal text of the f-string, source lines 1758-1760 *)
question_generator_text11 ==
  <<
    "<U+0060>** that: \n",
    "\n",
    "1. **Target ONLY <U+0060>"
  >>

(* question_generator: literal text of the f-string, source lines 1760-1761 *)
question_generator_text12 ==
  <<
    "<U+0060>** - all questions must reference this file\n",
    "2. **Reference specific functions, variables, or logic sections** within <U+0060>"
  >>

(* question_generator: literal text of the f-string, source lines 1761-1762 *)
question_generator_text13 ==
  <<
    "<U+0060>\n",
    "3. **Describe concrete attack vectors** (not \"could there be a bug?\" but \"can attacker do X by exploiting Y in <U+0060>"
  >>

(* question_generator: literal text of the f-string, source lines 1762-1765 *)
question_generator_text14 ==
  <<
    "<U+0060>?\")\n",
    "<line 1763>",
    "<line 1764>",
    "6. **Cover diverse attack surfaces** within <U+0060>"
  >>

(* question_generator: literal text of the f-string, source lines 1765-1777 *)
question_generator_text15 ==
  <<
    "<U+0060>:  validation logic, state transitions, error handling, edge cases, interactions with other modules\n",
    "<line 1766>",
    "<line 1767>",
    "<line 1768>",
    "<line 1769>",
    "\n",
    "<line 1771>",
    "<line 1772>",
    "<line 1773>",
    "<line 1774>",
    "<line 1775>",
    "\n",
    "**Begin generating questions for <U+0060>"
  >>

(* question_generator: literal text of the f-string, source lines 1777-1778 *)
question_generator_text16 ==
  <<
    "<U+0060> now.**\n"
  >>

(* question_generator: the parts of the f-string in source order, lines 1381-1778 *)
question_generator_template ==
  <<
    Lit(question_generator_text1), Field("target_file"),
    Lit(question_generator_text2), Field("target_file"),
    Lit(question_generator_text3), Field("target_file"),
    Lit(question_generator_text4), Field("target_file"),
    Lit(question_generator_text5), Field("target_file"),
    Lit(question_generator_text6), Field("target_file"),
    Lit(question_generator_text7), Field("target_file"),
    Lit(question_generator_text8), Field("target_file"),
    Lit(question_generator_text9), Field("target_file"),
    Lit(question_generator_text10), Field("target_file"),
    Lit(question_generator_text11), Field("target_file"),
    Lit(question_generator_text12), Field("target_file"),
    Lit(question_generator_text13), Field("target_file"),
    Lit(question_generator_text14), Field("target_file"),
    Lit(question_generator_text15), Field("target_file"),
    Lit(question_generator_text16)
  >>

-----------------------------------------------------------------------------
(* Python values *)

PyStr(text) == [type |-> "str", text |-> text]
PyInt(digits) == [type |-> "int", digits |-> digits]
PyNone == [type |-> "NoneType"]
PyList(items) == [type |-> "list", items |-> items]
PyDict(pairs) == [type |-> "dict", pairs |-> pairs]

(* a module-level name that no statement has bound yet *)
Unbound == [type |-> "unbound"]

(* outcome of a call: a returned value, or an exception that left it *)
Return(v) == [raised |-> "none", value |-> v]
Raise(e) == [raised |-> e, value |-> Unbound]

-----------------------------------------------------------------------------
(* The file all_questions.json and the lexemes of its text *)

Punct(c) == [lex |-> c, text |-> <<c>>]
StrLex(text) == [lex |-> "string", text |-> text]
NumLex(digits) == [lex |-> "number", text |-> <<digits>>]
NullLex == [lex |-> "null", text |-> <<"null">>]

Absent == [state |-> "absent", content |-> <<>>]
NoPermission == [state |-> "no_permission", content |-> <<>>]
ReadError == [state |-> "read_error", content |-> <<>>]
File(content) == [state |-> "file", content |-> content]

(* the question strings an external producer persists *)
QuestionTexts == {<<"Q1">>, <<"Q2">>}

QuestionLists == UNION {[1..n -> QuestionTexts] : n \in 0..MaxQuestions}

(* the JSON text of a list of strings: [ "a" , "b" ] *)
JsonText(qs) ==
  IF Len(qs) = 0 THEN <<Punct("["), Punct("]")>>
  ELSE [k \in 1..(2 * Len(qs) + 1) |->
          IF k = 1 THEN Punct("[")
          ELSE IF k = 2 * Len(qs) + 1 THEN Punct("]")
          ELSE IF k % 2 = 0 THEN StrLex(qs[k \div 2])
          ELSE Punct(",")]

WellFormedFiles == {File(JsonText(qs)) : qs \in QuestionLists}

(* a write cut short: every proper prefix of the text ["Q1","Q2"], the *)
(* empty file among them                                               *)
TruncatedFiles ==
  LET full == JsonText(<<<<"Q1">>, <<"Q2">>>>)
  IN {File(SubSeq(full, 1, k)) : k \in 0..(Len(full) - 1)}

(* well-formed JSON that is not a list of strings, and text after the value *)
OtherFiles ==
  { File(<<NullLex>>),
    File(<<NumLex("1")>>),
    File(<<StrLex(<<"Q1">>)>>),
    File(<<Punct("["), NumLex("1"), Punct("]")>>),
    File(<<Punct("["), StrLex(<<"Q1">>), Punct(","), NullLex, Punct("]")>>),
    File(<<Punct("{"), StrLex(<<"k">>), Punct(":"), StrLex(<<"Q1">>), Punct("}")>>),
    File(<<Punct("["), Punct("]"), Punct("]")>>) }

Resources ==
  {Absent, NoPermission, ReadError} \cup WellFormedFiles \cup TruncatedFiles
    \cup OtherFiles

-----------------------------------------------------------------------------
(* json.load (line 9): the decoder over the lexemes of the text *)

ParseFail(i) == [ok |-> FALSE, value |-> Unbound, next |-> i]
ParseOk(v, i) == [ok |-> TRUE, value |-> v, next |-> i]

RECURSIVE scan_once(_, _)
RECURSIVE array_items(_, _, _)
RECURSIVE object_members(_, _, _)

(* the items of an array after "[" or ",": value, then "," or "]" *)
array_items(toks, i, acc) ==
  LET v == scan_once(toks, i)
  IN IF ~v.ok THEN ParseFail(i)
     ELSE LET acc2 == Append(acc, v.value)
              j == v.next
          IN IF j > Len(toks) THEN ParseFail(j)
             ELSE IF toks[j].lex = "]" THEN ParseOk(PyList(acc2), j + 1)
             ELSE IF toks[j].lex = "," THEN array_items(toks, j + 1, acc2)
             ELSE ParseFail(j)

(* the members of an object after "{" or ",": "key" : value, then "," or "}" *)
object_members(toks, i, acc) ==
  IF i > Len(toks) \/ toks[i].lex # "string" THEN ParseFail(i)
  ELSE IF i + 1 > Len(toks) \/ toks[i + 1].lex # ":" THEN ParseFail(i + 1)
  ELSE LET v == scan_once(toks, i + 2)
       IN IF ~v.ok THEN ParseFail(i + 2)
          ELSE LET acc2 == Append(acc, <<toks[i].text, v.value>>)
                   j == v.next
               IN IF j > Len(toks) THEN ParseFail(j)
                  ELSE IF toks[j].lex = "}" THEN ParseOk(PyDict(acc2), j + 1)
                  ELSE IF toks[j].lex = "," THEN object_members(toks, j + 1, acc2)
                  ELSE ParseFail(j)

(* one JSON value starting at lexeme i *)
scan_once(toks, i) ==
  IF i > Len(toks) THEN ParseFail(i)
  ELSE CASE toks[i].lex = "string" -> ParseOk(PyStr(toks[i].text), i + 1)
         [] toks[i].lex = "number" -> ParseOk(PyInt(toks[i].text), i + 1)
         [] toks[i].lex = "null" -> ParseOk(PyNone, i + 1)
         [] toks[i].lex = "[" ->
              IF i + 1 <= Len(toks) /\ toks[i + 1].lex = "]"
              THEN ParseOk(PyList(<<>>), i + 2)
              ELSE array_items(toks, i + 1, <<>>)
         [] toks[i].lex = "{" ->
              IF i + 1 <= Len(toks) /\ toks[i + 1].lex = "}"
              THEN ParseOk(PyDict(<<>>), i + 2)
              ELSE object_members(toks, i + 1, <<>>)
         [] OTHER -> ParseFail(i)

(* json.loads: one value and nothing after it, else JSONDecodeError *)
json_loads(toks) ==
  LET v == scan_once(toks, 1)
  IN IF ~v.ok THEN Raise("JSONDecodeError")
     ELSE IF v.next <= Len(toks) THEN Raise("JSONDecodeError")
     ELSE Return(v.value)

(* json.load(f): f.read(), then json.loads *)
json_load(f) ==
  IF f.state = "read_error" THEN Raise("UnicodeDecodeError")
  ELSE json_loads(f.content)

(* open("all_questions.json", "r") (line 8) *)
open_file(res) ==
  CASE res.state = "absent" -> Raise("FileNotFoundError")
    [] res.state = "no_permission" -> Raise("PermissionError")
    [] OTHER -> Return(res)

-----------------------------------------------------------------------------
(* get_questions (lines 6-12) *)

RECURSIVE without_repeats(_)
without_repeats(items) ==
  IF items = <<>> THEN <<>>
  ELSE LET rest == without_repeats(SubSeq(items, 1, Len(items) - 1))
           x == items[Len(items)]
       IN IF \E i \in DOMAIN rest : rest[i] = x THEN rest ELSE Append(rest, x)

(* variant: the loader drops repeated entries of a loaded list *)
try_body_dedup(res) ==
  LET f == open_file(res)
      r == IF f.raised # "none" THEN f ELSE json_load(f.value)
  IN IF r.raised = "none" /\ r.value.type = "list"
     THEN Return(PyList(without_repeats(r.value.items)))
     ELSE r

(* the try block, lines 8-9: open the file and return what json.load gives *)
try_body(res) ==
  LET f == open_file(res)
  IN IF f.raised # "none" THEN f ELSE json_load(f.value)

(* variant: the handler names one exception, except FileNotFoundError *)
except_matches_narrow(e) == e = "FileNotFoundError"

(* line 11, a bare except: it matches every exception *)
except_matches(e) == TRUE

get_questions ==
  LET r == try_body(resource)
  IN IF r.raised = "none" THEN r
     ELSE IF except_matches(r.raised) THEN Return(PyList(<<>>))
     ELSE r

(* variant: after a failure the loader opens and reads the file again *)
get_questions_io_retry ==
  IF try_body(resource).raised = "none" THEN <<"open", "read", "close">>
  ELSE <<"open", "open", "read", "close">>

(* the operations one call of get_questions performs on the file, in     *)
(* order: one open (line 8); if it succeeds one read, by json.load (line *)
(* 9), and the close on leaving the with block, also when the read or    *)
(* the decoding raises; the handler (line 12) performs none              *)
get_questions_io ==
  IF open_file(resource).raised # "none" THEN <<"open">>
  ELSE <<"open", "read", "close">>

(* variant: the field carries the conversion !r, repr(value) *)
format_value_repr(value) == <<"'">> \o value \o <<"'">>

(* variant: the value goes through str.format once more, which reads *)
(* doubled braces as single ones                                    *)
format_value_unescaped(value) ==
  [i \in DOMAIN value |->
     IF value[i] = "{{" THEN "{"
     ELSE IF value[i] = "}}" THEN "}"
     ELSE value[i]]

(* a replacement field without conversion or format spec: format(value, ""), *)
(* which for a str is the str itself                                         *)
format_value(value) == value

RECURSIVE fstring(_, _)
(* evaluation of an f-string: its parts in order, joined *)
fstring(parts, env) ==
  IF parts = <<>> THEN <<>>
  ELSE LET p == Head(parts)
       IN (IF p.kind = "literal" THEN p.text ELSE format_value(env[p.name]))
            \o fstring(Tail(parts), env)

(* the fields of an f-string are evaluated in the scope of the function: *)
(* a field whose name is not bound there raises NameError; the three     *)
(* functions bind their one parameter and no other local name before the *)
(* f-string                                                              *)
names_resolve(parts, params) ==
  \A i \in DOMAIN parts :
    parts[i].kind = "field" => parts[i].name \in params

(* variant: the question is interpolated a second time, after the text *)
question_format_twice(question) ==
  fstring(question_format_template \o <<Field("question")>>,
          [question |-> question])

(* variant: the text after the slot names another sentinel *)
question_format_other_sentinel(question) ==
  fstring(<<question_format_template[1], question_format_template[2],
            Lit([i \in DOMAIN question_format_text2 |->
                   IF question_format_text2[i] =
                        "#NoVulnerability found for this question."
                   THEN "#NoVulnerability"
                   ELSE question_format_text2[i]])>>,
          [question |-> question])

(* question_format (lines 98-656) *)
question_format(question) ==
  fstring(question_format_template, [question |-> question])

(* variant: the rendered prompt reports the state of the question file *)
validation_format_reads_file(report) ==
  fstring(validation_format_template, [report |-> report])
    \o <<resource.state>>

(* variant: the white space of the report is dropped before it is *)
(* interpolated                                                   *)
validation_format_stripped(report) ==
  fstring(validation_format_template,
          [report |-> SelectSeq(report, LAMBDA t : t # " ")])

(* variant: the report is quoted before it is interpolated *)
validation_format_quoted(report) ==
  fstring(validation_format_template,
          [report |-> <<"\"">> \o report \o <<"\"">>])

(* validation_format (lines 659-1367) *)
validation_format(report) ==
  fstring(validation_format_template, [report |-> report])

(* variant: the braces of the second field are doubled, so the field is *)
(* literal text                                                         *)
question_generator_unfilled(target_file) ==
  fstring([i \in DOMAIN question_generator_template |->
             IF i = 4 THEN Lit(<<"{target_file}">>)
             ELSE question_generator_template[i]],
          [target_file |-> target_file])

(* variant: the first two fields only are replacement fields, the later *)
(* ones are literal text                                                *)
question_generator_two_slots(target_file) ==
  fstring([i \in DOMAIN question_generator_template |->
             IF i > 4 /\ question_generator_template[i].kind = "field"
             THEN Lit(<<"the target file">>)
             ELSE question_generator_template[i]],
          [target_file |-> target_file])

(* variant: the prompt ends with one line for each loaded question *)
question_generator_with_questions(target_file) ==
  fstring(question_generator_template, [target_file |-> target_file])
    \o (IF questions.type = "list"
        THEN [i \in DOMAIN questions.items |-> "previously generated question"]
        ELSE <<>>)

(* variant: a target that is no entry of the catalog is rejected *)
question_generator_members_only(target_file) ==
  IF \E i \in DOMAIN questions_generator_decl :
       target_file = <<questions_generator_decl[i]>>
  THEN fstring(question_generator_template, [target_file |-> target_file])
  ELSE <<"unknown target file">>

(* question_generator (lines 1370-1779) *)
question_generator(target_file) ==
  fstring(question_generator_template, [target_file |-> target_file])

-----------------------------------------------------------------------------
(* Inputs of the renderers *)

InputTokens == {"Q", "#NoVulnerability found for this question."}

Inputs == UNION {[1..n -> InputTokens] : n \in 0..MaxInputLen}

(* target files passed to question_generator: a path of the catalog and *)
(* a text that is no path of it                                         *)
TargetTokens == {"Q", "byteball/ocore/validation.js"}

Targets == UNION {[1..n -> TargetTokens] : n \in 0..MaxInputLen}

-----------------------------------------------------------------------------
(* The state machine *)

NoCall == [fn |-> "none", arg |-> <<>>, res |-> Absent, raised |-> "none",
           value |-> Unbound, out |-> <<>>, io |-> <<>>]

(* the record of a get_questions call: the file as the call found it, the *)
(* outcome, and the operations the call performed on the file             *)
Loaded(r) ==
  [fn |-> "get_questions", arg |-> <<>>, res |-> resource,
   raised |-> r.raised, value |-> r.value, out |-> <<>>,
   io |-> get_questions_io]

(* the threads of a program that has imported the module *)
Threads == {"t1", "t2"}

(* a thread that is neither in a renderer nor holds a value it read *)
Idle == [pc |-> "idle", fn |-> "none", arg |-> <<>>, prompt |-> <<>>,
         result |-> <<>>, seen |-> Unbound]

Init ==
  /\ resource \in Resources
  /\ pc = "start"
  /\ questions = Unbound
  /\ questions_generator = Unbound
  /\ ret = NoCall
  /\ threads = [t \in Threads |-> Idle]

(* variant: the module body defers the load and leaves questions unbound *)
ImportLoad_lazy ==
  /\ pc = "start"
  /\ pc' = "loaded"
  /\ UNCHANGED <<resource, questions, questions_generator, ret, threads>>

(* module body, lines 1-15: import json, BASE_URL, def get_questions and *)
(* questions = get_questions()                                           *)
ImportLoad ==
  /\ pc = "start"
  /\ LET r == get_questions
     IN /\ ret' = Loaded(r)
        /\ IF r.raised = "none"
           THEN questions' = r.value /\ pc' = "loaded"
           ELSE questions' = questions /\ pc' = "failed"
  /\ UNCHANGED <<resource, questions_generator, threads>>

(* module body, lines 17-95: questions_generator = [...] *)
ImportCatalog ==
  /\ pc = "loaded"
  /\ questions_generator' =
       PyList([i \in DOMAIN questions_generator_decl |->
                 PyStr(<<questions_generator_decl[i]>>)])
  /\ pc' = "catalog"
  /\ UNCHANGED <<resource, questions, ret, threads>>

(* module body, lines 98-1779: the three def statements *)
ImportDefs ==
  /\ pc = "catalog"
  /\ pc' = "ready"
  /\ UNCHANGED <<resource, questions, questions_generator, ret, threads>>

(* variant: a direct call refreshes the module-level collection *)
CallGetQuestions_rebinds ==
  /\ pc = "ready"
  /\ LET r == get_questions
     IN ret' = Loaded(r) /\ questions' = r.value
  /\ UNCHANGED <<resource, pc, questions_generator, threads>>

(* a caller of the imported module calls get_questions() *)
CallGetQuestions ==
  /\ pc = "ready"
  /\ LET r == get_questions
     IN ret' = Loaded(r)
  /\ UNCHANGED <<resource, pc, questions, questions_generator, threads>>

(* the record of a renderer call; a renderer reads no file *)
Rendered(fn, arg, out) ==
  [fn |-> fn, arg |-> arg, res |-> Absent, raised |-> "none",
   value |-> Unbound, out |-> out, io |-> <<>>]

(* the record of a renderer call that an exception left *)
RenderFailed(fn, arg, e) ==
  [fn |-> fn, arg |-> arg, res |-> Absent, raised |-> e,
   value |-> Unbound, out |-> <<>>, io |-> <<>>]

CallQuestionFormat ==
  /\ pc = "ready"
  /\ \E s \in Inputs :
       ret' = IF names_resolve(question_format_template, {"question"})
              THEN Rendered("question_format", s, question_format(s))
              ELSE RenderFailed("question_format", s, "NameError")
  /\ UNCHANGED <<resource, pc, questions, questions_generator, threads>>

CallValidationFormat ==
  /\ pc = "ready"
  /\ \E r \in Inputs :
       ret' = IF names_resolve(validation_format_template, {"report"})
              THEN Rendered("validation_format", r, validation_format(r))
              ELSE RenderFailed("validation_format", r, "NameError")
  /\ UNCHANGED <<resource, pc, questions, questions_generator, threads>>

(* variant: the renderer loads the questions again before rendering *)
CallQuestionGenerator_reloads ==
  /\ pc = "ready"
  /\ \E t \in Targets :
       ret' = [Rendered("question_generator", t, question_generator(t))
                 EXCEPT !.io = get_questions_io]
  /\ questions' = get_questions.value
  /\ UNCHANGED <<resource, pc, questions_generator, threads>>

(* variant: the renderer adds its target to the catalog *)
CallQuestionGenerator_registers ==
  /\ pc = "ready"
  /\ \E t \in Targets :
       /\ ret' = Rendered("question_generator", t, question_generator(t))
       /\ questions_generator' =
            PyList(Append(questions_generator.items, PyStr(t)))
  /\ UNCHANGED <<resource, pc, questions, threads>>

CallQuestionGenerator ==
  /\ pc = "ready"
  /\ \E t \in Targets :
       ret' = IF names_resolve(question_generator_template, {"target_file"})
              THEN Rendered("question_generator", t, question_generator(t))
              ELSE RenderFailed("question_generator", t, "NameError")
  /\ UNCHANGED <<resource, pc, questions, questions_generator, threads>>

(* the external producer creates, rewrites or deletes all_questions.json *)
EnvWrite ==
  /\ \E r \in Resources : r # resource /\ resource' = r
  /\ UNCHANGED <<pc, questions, questions_generator, ret, threads>>

Next ==
  \/ ImportLoad
  \/ ImportCatalog
  \/ ImportDefs
  \/ CallGetQuestions
  \/ CallQuestionFormat
  \/ CallValidationFormat
  \/ CallQuestionGenerator
  \/ EnvWrite

Spec == Init /\ [][Next]_vars

-----------------------------------------------------------------------------
(* Several threads use the imported module; the file is left alone, the *)
(* module does not read it after the load of line 15                    *)

(* the body of a renderer up to its return statement: the f-string is *)
(* evaluated and bound to the local name prompt of the call's frame   *)
(* (lines 108, 669, 1381)                                             *)
prompt_of(fn, arg) ==
  CASE fn = "question_format" -> question_format(arg)
    [] fn = "validation_format" -> validation_format(arg)
    [] fn = "question_generator" -> question_generator(arg)

(* the arguments the threads pass to a renderer *)
ThreadArgs(fn) ==
  IF fn = "question_generator" THEN Targets ELSE Inputs

(* thread t calls a renderer: a frame with its own prompt *)
ThreadCall(t) ==
  /\ pc = "ready"
  /\ threads[t].pc = "idle"
  /\ \E fn \in {"question_format", "validation_format", "question_generator"} :
       \E arg \in ThreadArgs(fn) :
         threads' = [threads EXCEPT ![t] =
                       [pc |-> "built", fn |-> fn, arg |-> arg,
                        prompt |-> prompt_of(fn, arg),
                        result |-> <<>>, seen |-> Unbound]]
  /\ UNCHANGED <<resource, pc, questions, questions_generator, ret>>

(* variant: prompt is a name of the module, shared by the calls in progress *)
ThreadReturn_shared(t) ==
  /\ threads[t].pc = "built"
  /\ \E u \in Threads :
       /\ threads[u].pc = "built"
       /\ threads' = [threads EXCEPT ![t].pc = "returned",
                                     ![t].result = threads[u].prompt]
  /\ UNCHANGED <<resource, pc, questions, questions_generator, ret>>

(* return prompt (lines 656, 1367, 1779): the local of the thread's frame *)
ThreadReturn(t) ==
  /\ threads[t].pc = "built"
  /\ threads' = [threads EXCEPT ![t].pc = "returned",
                                ![t].result = threads[t].prompt]
  /\ UNCHANGED <<resource, pc, questions, questions_generator, ret>>

(* thread t reads the module-level name questions or questions_generator *)
ThreadRead(t) ==
  /\ pc = "ready"
  /\ threads[t].pc = "idle"
  /\ \/ threads' = [threads EXCEPT ![t] =
                       [Idle EXCEPT !.pc = "read", !.fn = "questions",
                                    !.seen = questions]]
     \/ threads' = [threads EXCEPT ![t] =
                       [Idle EXCEPT !.pc = "read",
                                    !.fn = "questions_generator",
                                    !.seen = questions_generator]]
  /\ UNCHANGED <<resource, pc, questions, questions_generator, ret>>

(* the caller in thread t drops the value it received *)
ThreadDone(t) ==
  /\ threads[t].pc \in {"returned", "read"}
  /\ threads' = [threads EXCEPT ![t] = Idle]
  /\ UNCHANGED <<resource, pc, questions, questions_generator, ret>>

NextThreads ==
  \/ ImportLoad
  \/ ImportCatalog
  \/ ImportDefs
  \/ \E t \in Threads : ThreadCall(t)
  \/ \E t \in Threads : ThreadReturn(t)
  \/ \E t \in Threads : ThreadRead(t)
  \/ \E t \in Threads : ThreadDone(t)

SpecThreads == Init /\ [][NextThreads]_vars

-----------------------------------------------------------------------------
(* The renderers applied to strings of any content *)

(* pieces of argument strings: plain text, white space, text that reads *)
(* as a replacement field, doubled braces, text of the scaffolds        *)
RenderTokens ==
  {"Q", " ", "{question}", "{report}", "{target_file}", "{{", "}}",
   "#NoVulnerability found for this question."}

RenderInputs == UNION {[1..n -> RenderTokens] : n \in 0..MaxInputLen}

(* a caller of the imported module calls one of the three renderers *)
CallRenderer ==
  /\ pc = "ready"
  /\ \E fn \in {"question_format", "validation_format", "question_generator"} :
       \E v \in RenderInputs :
         ret' = Rendered(fn, v, prompt_of(fn, v))
  /\ UNCHANGED <<resource, pc, questions, questions_generator, threads>>

NextRender ==
  \/ ImportLoad
  \/ ImportCatalog
  \/ ImportDefs
  \/ CallRenderer

SpecRender == Init /\ [][NextRender]_vars

TypeOK ==
  /\ resource \in Resources
  /\ pc \in {"start", "loaded", "catalog", "ready", "failed"}

-----------------------------------------------------------------------------
(* Text predicates used by the properties *)

(* s occurs in text right after the first `offset` tokens *)
OccursAt(s, text, offset) ==
  /\ offset + Len(s) <= Len(text)
  /\ SubSeq(text, offset + 1, offset + Len(s)) = s

(* the number of places of text where s occurs; the empty text occurs *)
(* before every token and at the end                                  *)
Occurrences(s, text) ==
  Cardinality({k \in 0..Len(text) : OccursAt(s, text, k)})

RECURSIVE Weave(_, _)
(* the texts in order with v between each two of them *)
Weave(texts, v) ==
  IF Len(texts) = 1 THEN texts[1]
  ELSE texts[1] \o v \o Weave(Tail(texts), v)

IsListOfStr(v) ==
  /\ v.type = "list"
  /\ \A i \in DOMAIN v.items : v.items[i].type = "str"

(* the file cannot be opened, cannot be read, or its text is no JSON value *)
LoadFails(res) ==
  \/ res.state \in {"absent", "no_permission", "read_error"}
  \/ res.state = "file" /\ json_loads(res.content).raised # "none"

-----------------------------------------------------------------------------
(* C1: scaffold invariance of question_format.  With P the literal text   *)
(* before the field and S the literal text after it, both independent of  *)
(* the input, every call question_format(s) returns P + s + S, the empty  *)
(* s included.                                                            *)
C1_ScaffoldInvariance ==
  ret.fn = "question_format" =>
    ret.out = question_format_text1 \o ret.arg \o question_format_text2

C1_Witness ==
  /\ ret.fn = "question_format"
  /\ ret.arg = <<"Q">>
  /\ ret.out = question_format_text1 \o <<"Q">> \o question_format_text2

(* C2 as claimed: for every input s the output of question_format(s)      *)
(* contains s exactly once.                                               *)
C2_ExactlyOnce ==
  ret.fn = "question_format" => Occurrences(ret.arg, ret.out) = 1

(* C2 as amended: the output of question_format(s) holds s in the         *)
(* 'Security Question' slot, right after the label, so s occurs at least  *)
(* once; when s is empty or occurs in the text before or after the slot,  *)
(* it occurs more than once.                                              *)
C2_InSlotAtLeastOnce ==
  ret.fn = "question_format" =>
    /\ question_format_text1[Len(question_format_text1)] =
         "**Security Question (scope for this run):** "
    /\ OccursAt(ret.arg, ret.out, Len(question_format_text1))
    /\ Occurrences(ret.arg, ret.out) >= 1
    /\ (Occurrences(ret.arg, question_format_text1)
          + Occurrences(ret.arg, question_format_text2) > 0
        => Occurrences(ret.arg, ret.out) > 1)

C2_Witness ==
  /\ ret.fn = "question_format"
  /\ ret.arg = <<"#NoVulnerability found for this question.">>
  /\ Occurrences(ret.arg, question_format_text2) > 0
  /\ Occurrences(ret.arg, ret.out) > 1

(* C3: loader fail-open.  A call of get_questions made while the file is  *)
(* absent, cannot be opened or read, holds text that is no JSON value, or *)
(* is empty (no text, or the text of the empty list) returns the empty    *)
(* list, the same value for every cause.                                  *)
C3_FailOpen ==
  (/\ ret.fn = "get_questions"
   /\ LoadFails(ret.res) \/ ret.res = File(JsonText(<<>>))) =>
    ret.raised = "none" /\ ret.value = PyList(<<>>)

C3_Witness ==
  /\ ret.fn = "get_questions"
  /\ ret.res = File(<<Punct("["), StrLex(<<"Q1">>), Punct(",")>>)
  /\ ret.value = PyList(<<>>)

(* C4: loader success.  A call of get_questions made while the file holds *)
(* the JSON text of a list of N strings returns that list: length N, the  *)
(* same strings in the same order, repeated strings kept.                 *)
C4_LoadsTheList ==
  \A qs \in QuestionLists :
    (ret.fn = "get_questions" /\ ret.res = File(JsonText(qs))) =>
      /\ ret.raised = "none"
      /\ ret.value.type = "list"
      /\ Len(ret.value.items) = Len(qs)
      /\ \A i \in 1..Len(qs) : ret.value.items[i] = PyStr(qs[i])

C4_Witness ==
  /\ ret.fn = "get_questions"
  /\ ret.res = File(JsonText(<<<<"Q2">>, <<"Q2">>>>))
  /\ ret.value = PyList(<<PyStr(<<"Q2">>), PyStr(<<"Q2">>)>>)

(* C5: the question collection is always a list of strings.  Every value  *)
(* get_questions returns, and the value bound to questions, is a list of  *)
(* strings, and it is the empty list whenever the file does not hold the  *)
(* JSON text of a list of strings.                                        *)
C5_AlwaysListOfStrings ==
  /\ questions # Unbound => IsListOfStr(questions)
  /\ ret.fn = "get_questions" =>
       /\ IsListOfStr(ret.value)
       /\ ret.res \notin WellFormedFiles => ret.value = PyList(<<>>)

(* C6: get_questions never raises.  Every call returns a value, whatever  *)
(* the state of the file, and the module body never stops on an exception *)
(* of the load.                                                           *)
C6_NeverRaises ==
  /\ pc # "failed"
  /\ ret.fn = "get_questions" => ret.raised = "none"

C6_Witness ==
  /\ ret.fn = "get_questions"
  /\ ret.res = ReadError
  /\ ret.raised = "none"
  /\ pc = "loaded"

(* C7: for every target t the output of question_generator(t) contains    *)
(* every identifier of questions_generator, character for character.      *)
C7_CatalogInOutput ==
  ret.fn = "question_generator" =>
    \A i \in DOMAIN questions_generator.items :
      Occurrences(questions_generator.items[i].text, ret.out) >= 1

(* C8: question_generator(t) is its sixteen literal texts, which do not   *)
(* depend on t, with t between each two of them: every field receives t.  *)
(* t follows the 'CRITICAL TARGET FILE' label and occurs again in the     *)
(* note after it, so it occurs at least twice.                            *)
C8_SameTargetEverySlot ==
  ret.fn = "question_generator" =>
    /\ ret.out =
         Weave(<<question_generator_text1, question_generator_text2,
                 question_generator_text3, question_generator_text4,
                 question_generator_text5, question_generator_text6,
                 question_generator_text7, question_generator_text8,
                 question_generator_text9, question_generator_text10,
                 question_generator_text11, question_generator_text12,
                 question_generator_text13, question_generator_text14,
                 question_generator_text15, question_generator_text16>>,
               ret.arg)
    /\ OccursAt(ret.arg, ret.out, Len(question_generator_text1))
    /\ OccursAt(ret.arg, ret.out,
                Len(question_generator_text1) + Len(ret.arg)
                  + Len(question_generator_text2))
    /\ Occurrences(ret.arg, ret.out) >= 2

C8_Witness ==
  /\ ret.fn = "question_generator"
  /\ ret.arg = <<"Q">>
  /\ Occurrences(<<"Q">>, ret.out) >= 2

(* C9: validation_format is deterministic.  A call of validation_format   *)
(* with the report of the previous validation_format call returns the     *)
(* string that call returned, whatever happened to the file in between.   *)
C9_Deterministic ==
  [][(/\ ret.fn = "validation_format"
      /\ ret'.fn = "validation_format"
      /\ ret'.arg = ret.arg) => ret'.out = ret.out]_vars

C9_Witness ==
  /\ ret.fn = "validation_format"
  /\ ret.arg = <<"Q">>
  /\ resource = Absent
  /\ questions = PyList(<<PyStr(<<"Q1">>)>>)

(* C10: with P' the literal text before the field and S' the literal text *)
(* after it, validation_format(r) is P' + r + S' for every report r: the  *)
(* report fills the one slot, on the line after the label 'SECURITY CLAIM *)
(* TO VALIDATE', and is not altered.                                      *)
C10_ReportInOneSlot ==
  ret.fn = "validation_format" =>
    /\ ret.out = validation_format_text1 \o ret.arg \o validation_format_text2
    /\ validation_format_text1[Len(validation_format_text1)] =
         "**SECURITY CLAIM TO VALIDATE:**\n"

C10_Witness ==
  /\ ret.fn = "validation_format"
  /\ ret.arg = <<"#NoVulnerability found for this question.">>
  /\ OccursAt(ret.arg, ret.out, Len(validation_format_text1))

-----------------------------------------------------------------------------
(* Further predicates used by the properties *)

Renderers == {"question_format", "validation_format", "question_generator"}

Sentinel == "#NoVulnerability found for this question."

(* the literal texts of question_generator in order *)
GeneratorTexts ==
  <<question_generator_text1, question_generator_text2,
    question_generator_text3, question_generator_text4,
    question_generator_text5, question_generator_text6,
    question_generator_text7, question_generator_text8,
    question_generator_text9, question_generator_text10,
    question_generator_text11, question_generator_text12,
    question_generator_text13, question_generator_text14,
    question_generator_text15, question_generator_text16>>

RECURSIVE TextLenBefore(_)
(* the number of tokens of the literal texts before the k-th *)
TextLenBefore(k) ==
  IF k = 1 THEN 0 ELSE TextLenBefore(k - 1) + Len(GeneratorTexts[k - 1])

(* the part of an output of question_generator where the k-th literal text *)
(* stands when the target has n tokens; empty when the output is shorter   *)
Segment(out, n, k) ==
  LET a == TextLenBefore(k) + (k - 1) * n
  IN IF a + Len(GeneratorTexts[k]) <= Len(out)
     THEN SubSeq(out, a + 1, a + Len(GeneratorTexts[k]))
     ELSE <<>>

(* the text is the text of an entry of the catalog *)
InCatalog(text) ==
  \E i \in DOMAIN questions_generator.items :
    questions_generator.items[i].text = text

(* the catalog as lines 17-95 declare it *)
DeclaredCatalog ==
  PyList([i \in DOMAIN questions_generator_decl |->
            PyStr(<<questions_generator_decl[i]>>)])

(* the paths of the reference block of question_generator (lines 1403-1495) *)
(* in the order of the block: the tokens that follow the opening quote of   *)
(* an entry                                                                  *)
ReferenceBlockPaths ==
  LET text == question_generator_text3
      at == {i \in 2..Len(text) : text[i - 1] = "    \""}
  IN [k \in 1..Cardinality(at) |->
        text[CHOOSE i \in at : Cardinality({j \in at : j <= i}) = k]]

-----------------------------------------------------------------------------
(* C11: the three renderers are total.  Every call of question_format,    *)
(* validation_format or question_generator, the empty input included,     *)
(* returns a string and raises nothing, whatever the question collection  *)
(* holds.                                                                 *)
C11_RenderersTotal ==
  ret.fn \in Renderers =>
    /\ ret.raised = "none"
    /\ ret.out \in Seq(STRING)
    /\ Len(ret.out) > Len(ret.arg)

C11_Witness ==
  /\ ret.fn = "question_format"
  /\ ret.arg = <<>>
  /\ ret.raised = "none"
  /\ resource = Absent
  /\ questions = PyList(<<>>)

(* C12: for every input s the output of question_format(s) contains the   *)
(* sentinel phrase in the text after the slot, whatever s is.             *)
C12_SentinelInScaffold ==
  ret.fn = "question_format" =>
    \E k \in (Len(question_format_text1) + Len(ret.arg))..Len(ret.out) :
      OccursAt(<<Sentinel>>, ret.out, k)

C12_Witness ==
  /\ ret.fn = "question_format"
  /\ ret.arg = <<"Q", "Q">> \/ ret.arg = <<"Q">>
  /\ Occurrences(<<Sentinel>>, ret.out) = 1

(* C13: renderers are pure.  A step in which a renderer returns leaves    *)
(* questions, questions_generator and the file unchanged, and the call    *)
(* performs no operation on the file.                                     *)
C13_RenderersPure ==
  [][(ret'.fn \in Renderers /\ ret' # ret) =>
       /\ questions' = questions
       /\ questions_generator' = questions_generator
       /\ resource' = resource
       /\ ret'.io = <<>>]_vars

C13_Witness ==
  /\ ret.fn = "question_generator"
  /\ ret.io = <<>>
  /\ questions = PyList(<<PyStr(<<"Q1">>), PyStr(<<"Q2">>)>>)
  /\ resource = File(JsonText(<<<<"Q1">>, <<"Q2">>>>))

(* C14: initialisation ordering.  The module body leaves its first        *)
(* statements only by running the loader, which binds questions; the body *)
(* runs once and makes no other call; a renderer returns only when the    *)
(* body has finished, with questions bound.                               *)
C14_LoadBeforeRender ==
  [][/\ (ret'.fn \in Renderers /\ ret' # ret) =>
          (pc = "ready" /\ questions # Unbound)
     /\ (pc = "start" /\ pc' # "start") =>
          /\ ret'.fn = "get_questions"
          /\ questions = Unbound
          /\ questions' = ret'.value
          /\ questions' # Unbound
     /\ pc # "start" => pc' # "start"
     /\ pc \notin {"start", "ready"} => ret' = ret]_vars

C14_Witness ==
  /\ pc = "ready"
  /\ ret.fn = "question_format"
  /\ questions = PyList(<<PyStr(<<"Q2">>)>>)

(* C15: one call of get_questions opens the file once at most, reads it   *)
(* once at most, never writes it and leaves it as it is; when the attempt *)
(* fails the call returns the empty list without another attempt.         *)
C15_OneReadNoWrite ==
  [][(ImportLoad \/ CallGetQuestions) =>
       /\ resource' = resource
       /\ Occurrences(<<"open">>, ret'.io) <= 1
       /\ Occurrences(<<"read">>, ret'.io) <= 1
       /\ Occurrences(<<"write">>, ret'.io) = 0
       /\ LoadFails(resource) =>
            ret'.raised = "none" /\ ret'.value = PyList(<<>>)]_vars

C15_Witness ==
  /\ ret.fn = "get_questions"
  /\ ret.res = NoPermission
  /\ ret.io = <<"open">>
  /\ ret.value = PyList(<<>>)

(* C16: catalog uniqueness.  No identifier occurs twice in                *)
(* questions_generator.                                                   *)
C16_CatalogUnique ==
  questions_generator # Unbound =>
    Cardinality({questions_generator.items[i].text :
                   i \in DOMAIN questions_generator.items})
      = Len(questions_generator.items)

C16_Witness ==
  /\ pc = "catalog"
  /\ questions_generator.items[1] = PyStr(<<"byteball/ocore/aa_addresses.js">>)
  /\ Len(questions_generator.items) > 1

(* C17: catalog immutability.  Once the module body has bound             *)
(* questions_generator, it holds the declared identifiers in the declared *)
(* order in every state, after any calls of the loader and the renderers. *)
C17_CatalogImmutable ==
  pc \in {"catalog", "ready"} => questions_generator = DeclaredCatalog

C17_Witness ==
  /\ pc = "ready"
  /\ ret.fn = "question_generator"
  /\ ret.arg = <<"byteball/ocore/validation.js">>
  /\ questions_generator = DeclaredCatalog

(* C19: the reference block of question_generator lists the identifiers   *)
(* of questions_generator in catalog order, none skipped or reordered.    *)
C19_BlockInCatalogOrder ==
  pc = "ready" =>
    /\ Len(ReferenceBlockPaths) = Len(questions_generator.items)
    /\ \A i \in DOMAIN questions_generator.items :
         questions_generator.items[i].text = <<ReferenceBlockPaths[i]>>

(* C20: question_generator does not validate catalog membership.  Of two  *)
(* successive calls of question_generator, one with a target of the       *)
(* catalog and one with a target outside it, both return, and the literal *)
(* texts stand unchanged in both outputs.                                 *)
C20_NoMembershipCheck ==
  [][(/\ ret.fn = "question_generator"
      /\ ret'.fn = "question_generator"
      /\ InCatalog(ret.arg) # InCatalog(ret'.arg)) =>
       /\ ret.raised = "none"
       /\ ret'.raised = "none"
       /\ \A k \in DOMAIN GeneratorTexts :
            /\ Segment(ret.out, Len(ret.arg), k) = GeneratorTexts[k]
            /\ Segment(ret'.out, Len(ret'.arg), k) =
                 Segment(ret.out, Len(ret.arg), k)]_vars

C20_Witness ==
  /\ ret.fn = "question_generator"
  /\ InCatalog(ret.arg)
  /\ ret.raised = "none"
  /\ Segment(ret.out, Len(ret.arg), Len(GeneratorTexts)) =
       question_generator_text16

-----------------------------------------------------------------------------
(* C18: for any interleaving of renderer calls and reads of questions and *)
(* questions_generator made by several threads after the module body has  *)
(* run, every renderer call returns the string the call returns when run  *)
(* alone, every read sees the value the name got at import, and questions *)
(* and questions_generator keep the values they got at import throughout. *)
C18_ConcurrentReadersSafe ==
  pc = "ready" =>
    /\ ret.fn = "get_questions"
    /\ questions = ret.value
    /\ questions_generator = DeclaredCatalog
    /\ \A t \in Threads :
         /\ threads[t].pc = "returned" =>
              \/ /\ threads[t].fn = "question_format"
                 /\ threads[t].result = question_format(threads[t].arg)
              \/ /\ threads[t].fn = "validation_format"
                 /\ threads[t].result = validation_format(threads[t].arg)
              \/ /\ threads[t].fn = "question_generator"
                 /\ threads[t].result = question_generator(threads[t].arg)
         /\ (threads[t].pc = "read" /\ threads[t].fn = "questions") =>
              threads[t].seen = ret.value
         /\ (threads[t].pc = "read" /\ threads[t].fn = "questions_generator") =>
              threads[t].seen = DeclaredCatalog

(* a renderer call returns in one thread while a call of another renderer *)
(* with another argument is under way in the other thread                 *)
C18_Witness ==
  /\ pc = "ready"
  /\ threads["t1"].pc = "returned"
  /\ threads["t1"].fn = "question_generator"
  /\ threads["t2"].pc = "built"
  /\ threads["t2"].fn = "question_format"
  /\ threads["t2"].arg # threads["t1"].arg

-----------------------------------------------------------------------------
(* C21: load-once snapshot.  questions is bound by the module body's call *)
(* of get_questions and by nothing else: once the body has passed line 15 *)
(* no step changes questions, neither a creation, rewrite or deletion of  *)
(* the file nor a later direct call of get_questions, whatever that call  *)
(* returns.                                                               *)
C21_LoadOnceSnapshot ==
  [][/\ pc # "start" => questions' = questions
     /\ (pc = "start" /\ questions' # questions) =>
          (ret'.fn = "get_questions" /\ questions' = ret'.value)]_vars

(* the file has changed since the import and a direct call of             *)
(* get_questions has returned the new list; questions is the old one      *)
C21_Witness ==
  /\ pc = "ready"
  /\ ret.fn = "get_questions"
  /\ ret.res = File(JsonText(<<<<"Q1">>, <<"Q2">>>>))
  /\ ret.value = PyList(<<PyStr(<<"Q1">>), PyStr(<<"Q2">>)>>)
  /\ questions = PyList(<<>>)

-----------------------------------------------------------------------------
(* Slots of the rendered prompts *)

(* the literal texts of a renderer's f-string in order *)
TextsOf(fn) ==
  CASE fn = "question_format" ->
         <<question_format_text1, question_format_text2>>
    [] fn = "validation_format" ->
         <<validation_format_text1, validation_format_text2>>
    [] fn = "question_generator" -> GeneratorTexts

RECURSIVE TextsLen(_)
(* the number of tokens of the texts together *)
TextsLen(texts) ==
  IF texts = <<>> THEN 0 ELSE Len(Head(texts)) + TextsLen(Tail(texts))

(* the part of an output where the k-th field's value stands when the *)
(* argument has n tokens; empty when the output is shorter            *)
Slot(out, texts, n, k) ==
  LET a == TextsLen(SubSeq(texts, 1, k)) + (k - 1) * n
  IN IF a + n <= Len(out) THEN SubSeq(out, a + 1, a + n) ELSE <<>>

(* C22: verbatim, single-pass substitution.  For each renderer and each   *)
(* argument v, also one that holds text reading as a replacement field,   *)
(* doubled braces, white space or text of the scaffold, every slot of the *)
(* output holds v itself, token for token, and the literal texts stand    *)
(* around the slots as the f-string has them.                             *)
C22_VerbatimSinglePass ==
  ret.fn \in Renderers =>
    LET texts == TextsOf(ret.fn)
    IN /\ \A k \in 1..(Len(texts) - 1) :
            Slot(ret.out, texts, Len(ret.arg), k) = ret.arg
       /\ ret.out = Weave(texts, ret.arg)

(* the argument reads as the renderer's own replacement field; the output *)
(* holds it in the fifteen slots and the name is not looked up again      *)
C22_Witness ==
  /\ ret.fn = "question_generator"
  /\ ret.arg = <<"{target_file}">>
  /\ Occurrences(<<"{target_file}">>, ret.out) = 15

(* C23: the question store does not interfere with rendering.  Whatever   *)
(* the file holds or has held and whatever the load bound to questions    *)
(* (the empty list after a failure, a list of questions, another value),  *)
(* a renderer call with argument v raises nothing, touches no file and    *)
(* returns the one string fixed by the renderer's literal texts and v, so *)
(* runs that differ in the file only return the same prompts.             *)
C23_StoreDoesNotInterfere ==
  \A fn \in Renderers :
    ret.fn = fn =>
      /\ ret.raised = "none"
      /\ ret.io = <<>>
      /\ ret.res = Absent
      /\ ret.out = Weave(TextsOf(fn), ret.arg)
      /\ (questions.type = "list" =>
            \A i \in DOMAIN questions.items :
              (/\ questions.items[i].type = "str"
               /\ Occurrences(questions.items[i].text, ret.arg) = 0) =>
                Occurrences(questions.items[i].text, ret.out) = 0)

(* question_generator has returned in a run that loaded two questions and *)
(* whose file has been deleted since                                      *)
C23_Witness ==
  /\ ret.fn = "question_generator"
  /\ ret.arg = <<"byteball/ocore/validation.js">>
  /\ questions = PyList(<<PyStr(<<"Q1">>), PyStr(<<"Q2">>)>>)
  /\ resource = Absent
  /\ ret.out = Weave(GeneratorTexts, ret.arg)

(* the code spans of a text that name the verdict to output when no       *)
(* finding applies: the tokens that stand between two backquotes          *)
SentinelSpans(text) ==
  {text[i] : i \in {j \in 2..(Len(text) - 1) :
                      text[j - 1] = "<U+0060>" /\ text[j + 1] = "<U+0060>"}}

(* C24: the no-vulnerability sentinel is one fixed literal.  Every code   *)
(* span with which the prompts of question_format and validation_format   *)
(* name the verdict to output when no finding applies holds the same      *)
(* string, character for character, white space included.                 *)
C24_OneSentinelLiteral ==
  ret.fn \in {"question_format", "validation_format"} =>
    Cardinality(SentinelSpans(ret.out)
                  \cup SentinelSpans(question_format(<<>>))
                  \cup SentinelSpans(validation_format(<<>>))) = 1

(* the argument read back from an output of renderer fn: the length of    *)
(* the output tells the length of the argument, the first literal text    *)
(* tells where it starts                                                  *)
Recovered(fn, out) ==
  LET texts == TextsOf(fn)
      n == (Len(out) - TextsLen(texts)) \div (Len(texts) - 1)
  IN Slot(out, texts, n, 1)

(* C25: each renderer is injective.  The string a renderer returns for an *)
(* argument v is returned for no other argument, and v is read back from  *)
(* it with the literal texts of the renderer.                             *)
C25_RenderersInjective ==
  ret.fn \in Renderers =>
    /\ \A v \in RenderInputs :
         v # ret.arg => prompt_of(ret.fn, v) # ret.out
    /\ Recovered(ret.fn, ret.out) = ret.arg

(* the argument is white space, which differs from the empty argument *)
C25_Witness ==
  /\ ret.fn = "validation_format"
  /\ ret.arg = <<" ">>
  /\ ret.out # validation_format(<<>>)
  /\ Recovered("validation_format", ret.out) = <<" ">>

(* the number of replacement fields of an f-string *)
FieldCount(parts) ==
  Cardinality({i \in DOMAIN parts : parts[i].kind = "field"})

(* C26: the length of the output is linear in the length of the argument. *)
(* With c1, c2 and c3 the lengths of the literal texts of the three       *)
(* f-strings, question_format(v) has length c1 + len(v),                  *)
(* validation_format(v) has length c2 + len(v) and question_generator(v)  *)
(* has length c3 + 15 * len(v): question_generator has exactly 15 fields  *)
(* for the target file, the other two renderers have exactly one field.   *)
C26_LengthLinear ==
  /\ ret.fn = "question_format" =>
       /\ FieldCount(question_format_template) = 1
       /\ Len(ret.out) =
            TextsLen(TextsOf("question_format")) + Len(ret.arg)
  /\ ret.fn = "validation_format" =>
       /\ FieldCount(validation_format_template) = 1
       /\ Len(ret.out) =
            TextsLen(TextsOf("validation_format")) + Len(ret.arg)
  /\ ret.fn = "question_generator" =>
       /\ FieldCount(question_generator_template) = 15
       /\ Len(ret.out) =
            TextsLen(TextsOf("question_generator")) + 15 * Len(ret.arg)

(* a target of one token adds fifteen tokens to the prompt of the empty   *)
(* target                                                                 *)
C26_Witness ==
  /\ ret.fn = "question_generator"
  /\ Len(ret.arg) = 1
  /\ Len(ret.out) = Len(question_generator(<<>>)) + 15

-----------------------------------------------------------------------------
(* File counts stated in the prompts *)

RECURSIVE Decimal(_)
(* the decimal numeral of a natural number *)
Decimal(n) ==
  LET digit == <<"0", "1", "2", "3", "4", "5", "6", "7", "8", "9">>
  IN IF n < 10 THEN digit[n + 1]
     ELSE Decimal(n \div 10) \o digit[(n % 10) + 1]

(* the number a numeral of one or two digits stands for *)
NumberOf(numeral) == CHOOSE n \in 0..99 : Decimal(n) = numeral

(* the places of a text where a section header of the reference block *)
(* announces its number of files                                      *)
SectionHeaders(text) ==
  {i \in 1..(Len(text) - 1) : text[i + 1] = " files**\n"}

(* the places of a text that hold an entry of the reference block *)
BlockEntries(text) ==
  {i \in 2..Len(text) : text[i - 1] = "    \""}

(* the entries listed under the header at place h: those before the next *)
(* header                                                                *)
ListedUnder(text, h) ==
  {i \in BlockEntries(text) :
     /\ i > h
     /\ \A g \in SectionHeaders(text) : g > h => i < g}

RECURSIVE SumOver(_, _)
(* the sum of the numbers announced at the places of hs *)
SumOver(text, hs) ==
  IF hs = {} THEN 0
  ELSE LET h == CHOOSE x \in hs : TRUE
       IN NumberOf(text[h]) + SumOver(text, hs \ {h})

(* the numerals that a text states as the number of files in scope: the *)
(* tokens that follow one of the three introductions                    *)
StatedTotals(text) ==
  {text[i] : i \in {j \in 2..Len(text) :
                      text[j - 1] \in {"**Files in Scope**:  All ",
                                       "**In-Scope Files (",
                                       "**Full Context - ",
                                       "**Total:  "}}}

(* C27: the catalog holds exactly 77 identifiers; each prompt states that *)
(* number as the number of files in scope; in the reference block of      *)
(* question_generator the numbers announced by the section headers add up *)
(* to the size of the catalog, and each header announces the number of    *)
(* entries listed under it.                                               *)
C27_FileCountsAgree ==
  (pc = "ready" /\ ret.fn \in Renderers) =>
    /\ Len(questions_generator.items) = 77
    /\ StatedTotals(ret.out) = {Decimal(Len(questions_generator.items))}
    /\ ret.fn = "question_generator" =>
         /\ Cardinality(SectionHeaders(ret.out)) = 3
         /\ SumOver(ret.out, SectionHeaders(ret.out)) =
              Len(questions_generator.items)
         /\ \A h \in SectionHeaders(ret.out) :
              NumberOf(ret.out[h]) =
                Cardinality(ListedUnder(ret.out, h))

=============================================================================
